---- MODULE Spec2Model ----
(***************************************************************************)
(* BlackPlus' docstring formatter (blackplus/formatter.py).                *)
(*                                                                         *)
(* A Python str is modelled as a sequence of one-character strings, so that *)
(* strip, startswith, split, join, textwrap.wrap and textwrap.dedent are   *)
(* computed character by character, as the library computes them.          *)
(***************************************************************************)
EXTENDS Integers, Sequences, FiniteSets, TLC

VARIABLES
    sections,            \* self.sections: the schema, an ordered list of dicts
    black,               \* how black.format_file_in_place behaves ("unset" until called)
    docstring,           \* the argument of the running format_docstring call
    pc,                  \* position in format_docstring
    pass,                \* 1: first call, 2: the call on the first call's result
    lines,               \* docstring.split("\n")
    idx,                 \* index of the next line of the for loop
    current_section,     \* Optional section: <<>> is None, <<s>> is the dict s
    current_content,     \* list of lines
    formatted_sections,  \* list of strings
    result,              \* the returned string
    first_result,        \* the result of the first call, kept for the second
    segments,            \* history: every _format_section call of this format_docstring call
    first_segments,      \* history: segments of the first call, kept for the second
    headers,             \* history: indexes of the lines that changed the section
    snippets,            \* history: every _format_code_snippet call
    fcontent,            \* _format_code_example: its content argument
    fconfig,             \* _format_code_example: its code_config argument
    fpos,                \* _format_code_example: index of the next line
    code_block,          \* _format_code_example: code_block
    in_code_block,       \* _format_code_example: in_code_block
    formatted_content,   \* _format_code_example: formatted_content
    fpc,                 \* _format_code_example: position
    snip_code,           \* _format_code_snippet: its argument code_snippet
    temp_files,          \* the temporary directory: path -> contents of the files in it
    created,             \* number of temporary files created so far
    temp_file_path,      \* _format_code_snippet: temp_file_path
    snip_ret,            \* _format_code_snippet: the value it returns
    snip_exc,            \* _format_code_snippet: the exception in flight, "none" if none
    spc,                 \* _format_code_snippet: position
    frames,              \* concurrent calls: the locals of each caller's format_docstring call
    queue,               \* concurrent calls: the docstrings each caller has still to get formatted
    returned,            \* concurrent calls: per caller, the (docstring, result) of its finished calls
    active,              \* concurrent calls: the callers inside format_docstring
    files,               \* the file system: path -> file
    file_paths,          \* format_files: its argument file_paths
    config,              \* format_files: its argument config
    file_idx,            \* format_files: index of the next path of the for loop
    file_pc,             \* position in format_files and format_file
    file_exc,            \* the exception that left format_files, "none" if none
    files_at_call,       \* history: the file system when format_file was entered
    log,                 \* history: the calls and writes made, in order
    args_paths,          \* main: args.paths, each with what the file system has there
    config_file,         \* main: what read_config(args.config) does: a configuration or an exception
    cli_config,          \* main: config
    python_files,        \* main: python_files
    exit_code,           \* main: the code of the SystemExit that ended it, -1 if none
    cli_exc,             \* main: the exception that left it, "none" if none
    cli_e,               \* main: e, the exception of the handler that ran, "none" if none
    cli_pc,              \* position in main
    cli_log,             \* history: the calls main made, in order
    tree,                \* DocstringTransformer: the syntax tree, node -> its kind, parent and docstring
    tree_in,             \* history: the tree given to visit
    todo,                \* DocstringTransformer: the nodes whose visitor has still to finish, in order
    visited              \* history: the format_docstring calls of the visitors, in order

vars == <<sections, black, docstring, pc, pass, lines, idx, current_section,
          current_content, formatted_sections, result, first_result, segments,
          first_segments, headers, snippets, fcontent, fconfig, fpos, code_block, in_code_block,
          formatted_content, fpc, snip_code, temp_files, created,
          temp_file_path, snip_ret, snip_exc, spc, frames, queue, returned, active, files, file_paths,
          config, file_idx, file_pc, file_exc, files_at_call, log,
          args_paths, config_file, cli_config, python_files, exit_code,
          cli_exc, cli_e, cli_pc, cli_log, tree, tree_in, todo, visited>>

mainVars == <<docstring, pc, pass, lines, idx, current_section, current_content,
              formatted_sections, result, first_result, segments,
              first_segments, headers>>

fenceVars == <<fcontent, fconfig, fpos, code_block, in_code_block,
               formatted_content, fpc>>

snipVars == <<snip_code, temp_files, created, temp_file_path, snip_ret,
              snip_exc, spc>>

\* The variables of the step-by-step specifications, which format_docstring
\* and _format_code_example taken as a whole leave alone.
threadVars == <<frames, queue, returned, active>>

fileVars == <<files, file_paths, config, file_idx, file_pc, file_exc,
              files_at_call, log>>

cliVars == <<args_paths, config_file, cli_config, python_files, exit_code,
             cli_exc, cli_e, cli_pc, cli_log>>

\* The variables of the callers of format_files and format_docstring.
treeVars == <<tree, tree_in, todo, visited>>

outerVars == <<cliVars, treeVars>>

sideVars == <<snipVars, threadVars, fileVars, outerVars>>

----------------------------------------------------------------------------
(* Bounds of the model. *)

\* Longest docstring, in lines, drawn for a schema of prose sections.
MaxLines == 3

\* Longest docstring, in lines, drawn for a schema with a code-example section.
MaxCodeLines == 4

\* Longest content list, in lines, that FenceInit draws.
MaxFenceLines == 4

\* Most calls of _format_code_snippet in a behaviour of SnippetSpec.
MaxSnippetCalls == 2

\* Longest docstring, in lines, that ThreadInit draws.
MaxThreadLines == 2

\* Most body lines of a section of the docstrings ScenarioInit builds.
MaxBodyLines == 1

\* Longest list of paths that FilesInit draws.
MaxPaths == 3

\* Most paths on the command line that CliInit draws.
MaxArgs == 2

\* Most definitions and statements under the module node that TreeInit draws.
MaxNodes == 2

\* Most lines of each of the two code-example segments SegmentsInit builds.
MaxSegmentLines == 2

\* Longest docstring, in lines, that BlankInit draws.
MaxBlankLines == 3

----------------------------------------------------------------------------
(* Python str operations. *)

NL == "\n"
SP == " "

\* str.isspace for one character.
IsSpace(c) == c \in {" ", "\n", "\t"}

IsBlank(s) == \A i \in 1..Len(s) : IsSpace(s[i])

\* Number of leading whitespace characters: len(s) - len(s.lstrip()).
LeadingSpace(s) ==
    IF IsBlank(s) THEN Len(s)
    ELSE (CHOOSE i \in 1..Len(s) :
             /\ ~IsSpace(s[i])
             /\ \A j \in 1..(i - 1) : IsSpace(s[j])) - 1

TrailingSpace(s) ==
    IF IsBlank(s) THEN Len(s)
    ELSE Len(s) - (CHOOSE i \in 1..Len(s) :
                      /\ ~IsSpace(s[i])
                      /\ \A j \in (i + 1)..Len(s) : IsSpace(s[j]))

LStrip(s) == SubSeq(s, LeadingSpace(s) + 1, Len(s))

RStrip(s) == SubSeq(s, 1, Len(s) - TrailingSpace(s))

\* str.strip that removes nothing.
Strip_none(s) == s

\* str.strip()
Strip(s) == LStrip(RStrip(s))

\* str.startswith(prefix)
StartsWith(s, prefix) ==
    /\ Len(prefix) <= Len(s)
    /\ SubSeq(s, 1, Len(prefix)) = prefix

RECURSIVE Split(_)
\* str.split("\n"): always at least one piece.
Split(s) ==
    IF \A i \in 1..Len(s) : s[i] # NL THEN <<s>>
    ELSE LET k == CHOOSE i \in 1..Len(s) :
                     s[i] = NL /\ \A j \in 1..(i - 1) : s[j] # NL
         IN <<SubSeq(s, 1, k - 1)>> \o Split(SubSeq(s, k + 1, Len(s)))

\* str.splitlines(): no piece for the end of a text that ends with a newline.
SplitLines(s) ==
    IF s = <<>> THEN <<>>
    ELSE IF s[Len(s)] = NL THEN Split(SubSeq(s, 1, Len(s) - 1))
    ELSE Split(s)

RECURSIVE Join(_, _)
\* sep.join(parts)
Join(sep, parts) ==
    IF parts = <<>> THEN <<>>
    ELSE IF Len(parts) = 1 THEN parts[1]
    ELSE parts[1] \o sep \o Join(sep, Tail(parts))

\* " " * n
Spaces(n) == [i \in 1..n |-> SP]

\* [x for x in parts if keep(x)] for the two filters the code uses.
RECURSIVE NonEmpty(_)
NonEmpty(parts) ==
    IF parts = <<>> THEN <<>>
    ELSE (IF parts[1] # <<>> THEN <<parts[1]>> ELSE <<>>) \o NonEmpty(Tail(parts))

----------------------------------------------------------------------------
(* textwrap.wrap(text, width) with the library's defaults: whitespace is   *)
(* replaced by spaces, whitespace at the ends of a line is dropped, and a  *)
(* word longer than the width is broken (break_long_words=True).           *)

RECURSIVE Chunks(_)
\* TextWrapper._split: maximal runs of whitespace and of non-whitespace.
Chunks(s) ==
    IF s = <<>> THEN <<>>
    ELSE LET sp == IsSpace(s[1])
             n  == IF \A i \in 1..Len(s) : IsSpace(s[i]) = sp THEN Len(s)
                   ELSE (CHOOSE i \in 1..Len(s) :
                            /\ IsSpace(s[i]) # sp
                            /\ \A j \in 1..(i - 1) : IsSpace(s[j]) = sp) - 1
         IN <<[i \in 1..n |-> IF sp THEN SP ELSE s[i]]>>
            \o Chunks(SubSeq(s, n + 1, Len(s)))

RECURSIVE FillLine(_, _, _)
\* The inner while loop of _wrap_chunks: chunks taken while they fit.
\* Returns <<the line's chunks, the chunks left>>.
FillLine(chunks, cur_line, width) ==
    IF chunks # <<>> /\ Len(Join(<<>>, cur_line)) + Len(chunks[1]) <= width
    THEN FillLine(Tail(chunks), Append(cur_line, chunks[1]), width)
    ELSE <<cur_line, chunks>>

RECURSIVE WrapChunks(_, _, _)
\* TextWrapper._wrap_chunks
WrapChunks(chunks, width, out) ==
    IF chunks = <<>> THEN out
    ELSE
      LET c0     == IF IsBlank(chunks[1]) /\ out # <<>> THEN Tail(chunks) ELSE chunks
          filled == FillLine(c0, <<>>, width)
          line1  == filled[1]
          rest1  == filled[2]
          long   == rest1 # <<>> /\ Len(rest1[1]) > width
          \* _handle_long_word with break_long_words: the word's head fills the line.
          space_left == width - Len(Join(<<>>, line1))
          line2  == IF long
                    THEN Append(line1, SubSeq(rest1[1], 1, space_left))
                    ELSE line1
          rest2  == IF long
                    THEN <<SubSeq(rest1[1], space_left + 1, Len(rest1[1]))>>
                         \o Tail(rest1)
                    ELSE rest1
          line3  == IF line2 # <<>> /\ IsBlank(line2[Len(line2)])
                    THEN SubSeq(line2, 1, Len(line2) - 1)
                    ELSE line2
      IN WrapChunks(rest2, width,
                    IF line3 # <<>> THEN Append(out, Join(<<>>, line3)) ELSE out)

\* wrap filling lines one column past the width.
Wrap_past_width(text, width) == WrapChunks(Chunks(text), width + 1, <<>>)

Wrap(text, width) == WrapChunks(Chunks(text), width, <<>>)

----------------------------------------------------------------------------
(* textwrap.dedent(text): the margin is the leading whitespace common to   *)
(* the lines that are not blank; whitespace-only lines become empty.       *)

RECURSIVE MinIndent(_)
\* The margin over the non-blank lines; -1 when every line is blank.
MinIndent(ls) ==
    IF ls = <<>> THEN -1
    ELSE LET m == MinIndent(Tail(ls))
         IN IF IsBlank(ls[1]) THEN m
            ELSE IF m = -1 \/ LeadingSpace(ls[1]) < m THEN LeadingSpace(ls[1])
            ELSE m

Dedent(text) ==
    LET ls == Split(text)
        m  == MinIndent(ls)
    IN Join(<<NL>>,
            [i \in 1..Len(ls) |->
                IF IsBlank(ls[i]) THEN <<>>
                ELSE SubSeq(ls[i], m + 1, Len(ls[i]))])

----------------------------------------------------------------------------
(* black.format_file_in_place on the temporary file, seen from the call.   *)
(* The call either rewrites the file, leaves it as it is, or raises.       *)

BlackModes == {"reformat", "keep", "NothingChanged", "InvalidInput", "crash"}

\* Columns black gives a nested line.
BlackIndent == 4

RECURSIVE DropLeadingBlank(_)
DropLeadingBlank(ls) ==
    IF ls # <<>> /\ ls[1] = <<>> THEN DropLeadingBlank(Tail(ls)) ELSE ls

RECURSIVE DropTrailingBlank(_)
DropTrailingBlank(ls) ==
    IF ls # <<>> /\ ls[Len(ls)] = <<>>
    THEN DropTrailingBlank(SubSeq(ls, 1, Len(ls) - 1))
    ELSE ls

\* What black writes for source it accepts: trailing whitespace removed, blank
\* lines at both ends removed, nested lines at black's own indentation, and a
\* newline after every line.
BlackOutput(src) ==
    LET ls  == Split(src)
        rs  == [i \in 1..Len(ls) |-> RStrip(ls[i])]
        body == DropTrailingBlank(DropLeadingBlank(rs))
        out == [i \in 1..Len(body) |->
                   IF body[i] = <<>> THEN <<>>
                   ELSE IF LeadingSpace(body[i]) > 0
                        THEN Spaces(BlackIndent) \o LStrip(body[i])
                        ELSE body[i]]
    IN Join(<<>>, [i \in 1..Len(out) |-> out[i] \o <<NL>>])

\* The file after a call that returns, and whether the call raises what.
\* mode "reformat" rejects source whose first statement is indented.
BlackRaises(mode, src) ==
    CASE mode = "NothingChanged" -> "NothingChanged"
      [] mode = "InvalidInput"   -> "InvalidInput"
      [] mode = "crash"          -> "Exception"
      [] mode = "reformat" ->
            LET body == DropLeadingBlank([i \in 1..Len(Split(src)) |-> RStrip(Split(src)[i])])
            IN IF body # <<>> /\ LeadingSpace(body[1]) > 0 THEN "InvalidInput"
               ELSE "none"
      [] OTHER -> "none"

BlackFile(mode, src) ==
    IF mode = "reformat" THEN BlackOutput(src) ELSE src


----------------------------------------------------------------------------
(* DocstringFormatter.  A section is a dict, modelled as a record that may *)
(* lack "width" and "code_example"; an Optional section is <<>> (None) or  *)
(* <<section>>.                                                            *)

DefaultWidth == 72

\* The defaults of code_config.get: a fence of three backquotes, followed by
\* "python" at the start. "~" stands for the backquote, which no TLA+ string holds.
DefaultStartMarker == <<"~", "~", "~", "p", "y", "t", "h", "o", "n">>
DefaultEndMarker == <<"~", "~", "~">>

\* dict.get(key, default)
Get(d, key, default) == IF key \in DOMAIN d THEN d[key] ELSE default

RECURSIVE identify_from_marked(_, _)
\* The loop without the test for the empty marker of line 100.
identify_from_marked(secs, stripped_line) ==
    IF secs = <<>> THEN <<>>
    ELSE IF secs[1].marker # <<>> /\ StartsWith(stripped_line, secs[1].marker)
         THEN <<secs[1]>>
    ELSE identify_from_marked(Tail(secs), stripped_line)

RECURSIVE identify_from(_, _)
\* The for loop of _identify_section over the sections left.
identify_from(secs, stripped_line) ==
    IF secs = <<>> THEN <<>>
    ELSE IF secs[1].marker = <<>> /\ stripped_line = <<>> THEN <<secs[1]>>
    ELSE IF secs[1].marker # <<>> /\ StartsWith(stripped_line, secs[1].marker)
         THEN <<secs[1]>>
    ELSE identify_from(Tail(secs), stripped_line)

\* _identify_section without the strip of line 98.
identify_section_unstripped(secs, line) == identify_from(secs, line)

identify_section(secs, line) == identify_from(secs, Strip(line))

\* The indent measured on the dedented text instead of the snippet.
original_indent_dedented(code_snippet) == LeadingSpace(Dedent(code_snippet))

\* Line 200: len(code_snippet) - len(code_snippet.lstrip())
original_indent(code_snippet) == LeadingSpace(code_snippet)

\* Lines 201-203: every non-blank line of black's file indented, then joined.
reindent(formatted_code, indent) ==
    Join(<<NL>>, [i \in 1..Len(SplitLines(formatted_code)) |->
                    IF ~IsBlank(SplitLines(formatted_code)[i])
                    THEN Spaces(indent) \o SplitLines(formatted_code)[i]
                    ELSE SplitLines(formatted_code)[i]])

\* The except clauses returning the text written to the file.
unformatted_dedented(code_snippet) == Dedent(code_snippet)

\* Lines 205-209: what the two except clauses return.
unformatted(code_snippet) == code_snippet

\* Lines 192-209 of _format_code_snippet, raises being what black raised.
snippet_result(code_snippet, mode, raises) ==
    [ret     |-> IF raises = "none"
                 THEN reindent(BlackFile(mode, Dedent(code_snippet)),
                               original_indent(code_snippet))
                 ELSE IF raises \in {"NothingChanged", "InvalidInput"}
                 THEN unformatted(code_snippet)
                 ELSE <<>>,
     raised  |-> raises \notin {"none", "NothingChanged", "InvalidInput"}]

\* _format_code_snippet: what it returns (ret) and whether an exception
\* leaves it (raised).
format_code_snippet(code_snippet, mode) ==
    snippet_result(code_snippet, mode, BlackRaises(mode, Dedent(code_snippet)))

\* The elif branch of the end marker (lines 165-169), r being what
\* _format_code_snippet did with the joined code_block.
fence_close(st, stripped_line, snippet, r) ==
    LET call == [snippet |-> snippet, block |-> st.code_block,
                 inside |-> st.in_code_block, ret |-> r.ret, raised |-> r.raised]
    IN IF r.raised
       THEN [st EXCEPT !.raised = TRUE,
                       !.in_code_block = FALSE,
                       !.calls = Append(@, call)]
       ELSE [st EXCEPT !.in_code_block = FALSE,
                       !.formatted_content = (@ \o Split(r.ret)) \o <<stripped_line>>,
                       !.code_block = <<>>,
                       !.calls = Append(@, call)]

\* The if/elif chain of lines 161-173 for a line whose stripped form is given.
fence_branch(st, line, stripped_line, start_marker, end_marker, mode) ==
    IF stripped_line = start_marker THEN
        [st EXCEPT !.in_code_block = TRUE,
                   !.formatted_content = Append(@, stripped_line)]
    ELSE IF stripped_line = end_marker THEN
        fence_close(st, stripped_line, Join(<<NL>>, st.code_block),
                    format_code_snippet(Join(<<NL>>, st.code_block), mode))
    ELSE IF st.in_code_block THEN
        [st EXCEPT !.code_block = Append(@, line)]
    ELSE [st EXCEPT !.formatted_content = Append(@, line)]

\* One iteration of the for loop of _format_code_example on the loop's
\* variables st, for one line; nothing runs after an exception.
fence_step(st, line, code_config, mode) ==
    IF st.raised THEN st
    ELSE fence_branch(st, line, Strip(line),
                      Get(code_config, "start_marker", DefaultStartMarker),
                      Get(code_config, "end_marker", DefaultEndMarker), mode)

\* A loop that starts inside a fence.
fence_start_inside ==
    [code_block |-> <<>>, in_code_block |-> TRUE, formatted_content |-> <<>>,
     raised |-> FALSE, calls |-> <<>>]

\* The variables of _format_code_example before its loop.
fence_start ==
    [code_block |-> <<>>, in_code_block |-> FALSE, formatted_content |-> <<>>,
     raised |-> FALSE, calls |-> <<>>]

RECURSIVE fence_run(_, _, _, _)
fence_run(st, content, code_config, mode) ==
    IF content = <<>> THEN st
    ELSE fence_run(fence_step(st, content[1], code_config, mode),
                   Tail(content), code_config, mode)

\* _format_code_example: the loop's variables when it returns (or raises).
format_code_example(content, code_config, mode) ==
    fence_run(fence_start, content, code_config, mode)

RECURSIVE prose_lines(_, _)
\* The else branch of _format_section: each line wrapped, or one empty line.
prose_lines(content, width) ==
    IF content = <<>> THEN <<>>
    ELSE (IF Strip(content[1]) # <<>> THEN Wrap(Strip(content[1]), width)
          ELSE << <<>> >>)
         \o prose_lines(Tail(content), width)

\* Lines 134-137 without the strip of line 134.
section_result_unstripped(sec, fence) ==
    [text   |-> IF sec.marker # <<>>
                THEN (sec.marker \o <<NL>>) \o Join(<<NL>>, fence.formatted_content)
                ELSE Join(<<NL>>, fence.formatted_content),
     flines |-> fence.formatted_content,
     raised |-> fence.raised,
     calls  |-> fence.calls]

\* Lines 134-137 of _format_section, fence holding its formatted_content.
section_result(sec, fence) ==
    [text   |-> IF sec.marker # <<>>
                THEN (sec.marker \o <<NL>>) \o Strip(Join(<<NL>>, fence.formatted_content))
                ELSE Strip(Join(<<NL>>, fence.formatted_content)),
     flines |-> fence.formatted_content,
     raised |-> fence.raised,
     calls  |-> fence.calls]

\* _format_section: the string it returns (text), its formatted_content
\* (flines), whether an exception leaves it, and its calls of black.
format_section(section, content, mode) ==
    IF section = <<>> THEN
        [text   |-> Join(<<NL>>, NonEmpty([i \in 1..Len(content) |-> Strip(content[i])])),
         flines |-> <<>>, raised |-> FALSE, calls |-> <<>>]
    ELSE IF "code_example" \in DOMAIN section[1] THEN
        section_result(section[1],
                       format_code_example(content, section[1].code_example, mode))
    ELSE
        section_result(section[1],
                       [fence_start EXCEPT !.formatted_content =
                           prose_lines(content, Get(section[1], "width", DefaultWidth))])

----------------------------------------------------------------------------
(* The schemas and the docstrings the model draws.                         *)

SummarySec == [name |-> "Summary", marker |-> <<>>, width |-> 3]
ASec == [name |-> "A", marker |-> <<"A", ":">>, width |-> 3]
BSec == [name |-> "B", marker |-> <<"B", ":">>]
ESec == [name |-> "E", marker |-> <<"E", ":">>, width |-> 3,
         code_example |-> [start_marker |-> <<"~", "p">>, end_marker |-> <<"~">>]]

AxSec == [name |-> "Ax", marker |-> <<"A", ":", "x">>, width |-> 3]

Schemas == << <<SummarySec, ASec, BSec>>,
              <<ASec, BSec, AxSec>>,
              <<SummarySec, ESec>>,
              <<ESec>> >>

HasCode(secs) == \E i \in 1..Len(secs) : "code_example" \in DOMAIN secs[i]

ProseLines == { <<>>,
                <<"x">>,
                <<"A", ":">>,
                <<"B", ":">>,
                <<"x", " ", "B", ":">>,
                <<"x", "x", "x", "x">>,
                <<" ", "A", ":", "x">> }

CodeLines == { <<>>,
               <<"E", ":">>,
               <<" ", "~", "p">>,
               <<"~">>,
               <<" ", " ", "y">> }

\* Every list of 1..n lines of L.
Docs(L, n) == UNION { [1..m -> L] : m \in 1..n }

----------------------------------------------------------------------------
(* format_docstring as a state machine: one step per line of the for loop, *)
(* then the flush after the loop, then the join.                           *)

\* _format_code_snippet is not running and no temporary file exists.
NoSnippet ==
    /\ snip_code = <<>>
    /\ temp_files = {}
    /\ created = 0
    /\ temp_file_path = 0
    /\ snip_ret = <<>>
    /\ snip_exc = "none"
    /\ spc = "off"

\* No caller is there.
NoThreads ==
    /\ frames = <<>>
    /\ queue = <<>>
    /\ returned = <<>>
    /\ active = {}

\* format_files is not running.
NoFiles ==
    /\ files = <<>>
    /\ file_paths = <<>>
    /\ config = "none"
    /\ file_idx = 0
    /\ file_pc = "off"
    /\ file_exc = "none"
    /\ files_at_call = <<>>
    /\ log = <<>>

\* main is not running.
NoCli ==
    /\ args_paths = <<>>
    /\ config_file = "none"
    /\ cli_config = "none"
    /\ python_files = <<>>
    /\ exit_code = -1
    /\ cli_exc = "none"
    /\ cli_e = "none"
    /\ cli_pc = "off"
    /\ cli_log = <<>>

\* No tree is being transformed.
NoTree ==
    /\ tree = <<>>
    /\ tree_in = <<>>
    /\ todo = <<>>
    /\ visited = <<>>

NoOuter == NoCli /\ NoTree

NoSide == NoSnippet /\ NoThreads /\ NoFiles /\ NoOuter

NoFence ==
    /\ fcontent = <<>>
    /\ fconfig = [start_marker |-> <<>>, end_marker |-> <<>>]
    /\ fpos = 0
    /\ code_block = <<>>
    /\ in_code_block = FALSE
    /\ formatted_content = <<>>
    /\ fpc = "off"

Init ==
    /\ \E k \in 1..Len(Schemas) :
         /\ sections = Schemas[k]
         /\ \E d \in (IF HasCode(Schemas[k]) THEN Docs(CodeLines, MaxCodeLines)
                      ELSE Docs(ProseLines, MaxLines)) :
              docstring = Join(<<NL>>, d)
    /\ black = "unset"
    /\ pc = "start"
    /\ pass = 1
    /\ lines = <<>>
    /\ idx = 0
    /\ current_section = <<>>
    /\ current_content = <<>>
    /\ formatted_sections = <<>>
    /\ result = <<>>
    /\ first_result = <<>>
    /\ segments = <<>>
    /\ first_segments = <<>>
    /\ headers = {}
    /\ snippets = <<>>
    /\ NoFence
    /\ NoSide

\* The blank lines BlankInit draws from.
BlankLines == { <<>>, <<" ">>, <<"\t", " ">> }

\* A formatter of any schema, called on an empty docstring or on one made of
\* blank lines only.
BlankInit ==
    /\ sections \in {Schemas[k] : k \in 1..Len(Schemas)}
    /\ docstring \in {Join(<<NL>>, d) : d \in Docs(BlankLines, MaxBlankLines)}
    /\ black = "unset"
    /\ pc = "start"
    /\ pass = 1
    /\ lines = <<>>
    /\ idx = 0
    /\ current_section = <<>>
    /\ current_content = <<>>
    /\ formatted_sections = <<>>
    /\ result = <<>>
    /\ first_result = <<>>
    /\ segments = <<>>
    /\ first_segments = <<>>
    /\ headers = {}
    /\ snippets = <<>>
    /\ NoFence
    /\ NoSide

\* Lines 62-66: the split and the initial section and buffer.
Start ==
    /\ pc = "start"
    /\ lines' = Split(docstring)
    /\ formatted_sections' = <<>>
    /\ current_section' = identify_section(sections, <<>>)
    /\ current_content' = <<>>
    /\ idx' = 1
    /\ pc' = "loop"
    /\ segments' = <<>>
    /\ headers' = {}
    /\ snippets' = <<>>
    /\ UNCHANGED <<sections, black, docstring, pass, result, first_result,
                   first_segments>>
    /\ UNCHANGED <<fenceVars, sideVars>>

\* The append of lines 72-74 and 81-83, r being what _format_section did under
\* black mode m: the segment is appended, or black's exception leaves
\* format_docstring.
Flushed(r, m, next_pc) ==
    /\ black \in {"unset", m}
    /\ black' = IF r.calls # <<>> THEN m ELSE black
    /\ snippets' = snippets \o r.calls
    /\ segments' = Append(segments, [section |-> current_section,
                                     content |-> current_content,
                                     flines  |-> r.flines,
                                     text    |-> r.text,
                                     raised  |-> r.raised,
                                     last    |-> idx - 1])
    /\ IF r.raised
       THEN /\ pc' = "raised"
            /\ UNCHANGED formatted_sections
       ELSE /\ pc' = next_pc
            /\ formatted_sections' = Append(formatted_sections, r.text)

Flush(m, next_pc) ==
    Flushed(format_section(current_section, current_content, m), m, next_pc)

\* Lines 71 and 80 without the test of the current section.
flush_needed_content(section, content) == content # <<>>

\* Lines 71 and 80: if current_section or current_content.
flush_needed(section, content) == section # <<>> \/ content # <<>>

\* Line 70 without the comparison with the current section.
section_changes_any(section, current) == section # <<>>

\* Line 70 without the test that the line was classified.
section_changes_none(section, current) == section # current

\* Line 70: the line starts a new segment.
section_changes(section, current) == section # <<>> /\ section # current

\* Line 76: the buffer of a new segment.
new_content(content) == <<>>

\* Line 78: the line joins the buffer.
append_content(content, line) == Append(content, line)

\* Lines 68-78: one iteration of the for loop.
Step ==
    /\ pc = "loop"
    /\ idx <= Len(lines)
    /\ IF section_changes(identify_section(sections, lines[idx]), current_section)
       THEN /\ IF flush_needed(current_section, current_content)
               THEN \E m \in BlackModes : Flush(m, "loop")
               ELSE UNCHANGED <<black, snippets, segments, pc, formatted_sections>>
            /\ IF pc' = "raised"
               THEN UNCHANGED <<current_section, current_content, idx, headers>>
               ELSE /\ current_section' = identify_section(sections, lines[idx])
                    /\ current_content' = new_content(current_content)
                    /\ headers' = headers \cup {idx}
                    /\ idx' = idx + 1
       ELSE /\ current_content' = append_content(current_content, lines[idx])
            /\ idx' = idx + 1
            /\ UNCHANGED <<black, snippets, segments, pc, formatted_sections,
                           current_section, headers>>
    /\ UNCHANGED <<sections, docstring, pass, lines, result, first_result,
                   first_segments>>
    /\ UNCHANGED <<fenceVars, sideVars>>

\* Lines 80-83: the flush after the loop.
FinalFlush ==
    /\ pc = "loop"
    /\ idx > Len(lines)
    /\ IF flush_needed(current_section, current_content)
       THEN \E m \in BlackModes : Flush(m, "join")
       ELSE /\ pc' = "join"
            /\ UNCHANGED <<black, snippets, segments, formatted_sections>>
    /\ UNCHANGED <<sections, docstring, pass, lines, idx, current_section,
                   current_content, result, first_result, first_segments, headers>>
    /\ UNCHANGED <<fenceVars, sideVars>>

\* Lines 85-86 with the sections joined by a newline only.
format_result_single(fs) == Strip(Join(<<NL>>, NonEmpty(fs)))

\* Lines 85-86: the non-empty sections joined by a blank line, stripped.
format_result(fs) == Strip(Join(<<NL, NL>>, NonEmpty(fs)))

Return ==
    /\ pc = "join"
    /\ result' = format_result(formatted_sections)
    /\ first_result' = IF pass = 1 THEN result' ELSE first_result
    /\ pc' = "done"
    /\ first_segments' = IF pass = 1 THEN segments ELSE first_segments
    /\ UNCHANGED <<sections, black, docstring, pass, lines, idx, current_section,
                   current_content, formatted_sections, segments, headers, snippets>>
    /\ UNCHANGED <<fenceVars, sideVars>>

\* The caller formats the result of the first call again, with the same
\* formatter object.
Again ==
    /\ pc = "done"
    /\ pass = 1
    /\ pass' = 2
    /\ docstring' = result
    /\ pc' = "start"
    /\ UNCHANGED <<sections, black, lines, idx, current_section, current_content,
                   formatted_sections, result, first_result, segments,
                   first_segments, headers, snippets>>
    /\ UNCHANGED <<fenceVars, sideVars>>

Next == Start \/ Step \/ FinalFlush \/ Return \/ Again

Spec == Init /\ [][Next]_vars

BlankSpec == BlankInit /\ [][Next]_vars


----------------------------------------------------------------------------
(* _format_code_example on its own, one step per line of its for loop.     *)

FenceLines == { <<>>,
                <<"x">>,
                <<" ", "~", "p">>,
                <<"~">>,
                <<" ", " ", "y">> }

FenceConfigs == { [start_marker |-> <<"~", "p">>, end_marker |-> <<"~">>],
                  [start_marker |-> <<"~">>, end_marker |-> <<"~">>] }

FenceInit ==
    /\ sections = <<>>
    /\ black = "unset"
    /\ docstring = <<>>
    /\ pc = "off"
    /\ pass = 1
    /\ lines = <<>>
    /\ idx = 0
    /\ current_section = <<>>
    /\ current_content = <<>>
    /\ formatted_sections = <<>>
    /\ result = <<>>
    /\ first_result = <<>>
    /\ segments = <<>>
    /\ first_segments = <<>>
    /\ headers = {}
    /\ snippets = <<>>
    /\ fcontent \in Docs(FenceLines, MaxFenceLines)
    /\ fconfig \in FenceConfigs
    /\ fpos = 1
    /\ code_block = <<>>
    /\ in_code_block = FALSE
    /\ formatted_content = <<>>
    /\ fpc = "loop"
    /\ NoSide

\* The loop's variables after an iteration that gave st under black mode m.
FenceAssign(st, m) ==
    /\ black \in {"unset", m}
    /\ black' = IF st.calls # <<>> THEN m ELSE black
    /\ snippets' = snippets \o st.calls
    /\ code_block' = st.code_block
    /\ in_code_block' = st.in_code_block
    /\ formatted_content' = st.formatted_content
    /\ fpc' = IF st.raised THEN "raised" ELSE "loop"
    /\ fpos' = IF st.raised THEN fpos ELSE fpos + 1

\* Lines 159-173: one iteration of the for loop.
FenceLine ==
    /\ fpc = "loop"
    /\ fpos <= Len(fcontent)
    /\ \E m \in BlackModes :
         FenceAssign(fence_step([code_block |-> code_block,
                                 in_code_block |-> in_code_block,
                                 formatted_content |-> formatted_content,
                                 raised |-> FALSE, calls |-> <<>>],
                                fcontent[fpos], fconfig, m), m)
    /\ UNCHANGED <<sections, fcontent, fconfig>>
    /\ UNCHANGED <<mainVars, sideVars>>

\* Line 175: return formatted_content.
FenceReturn ==
    /\ fpc = "loop"
    /\ fpos > Len(fcontent)
    /\ fpc' = "returned"
    /\ UNCHANGED <<sections, black, snippets, fcontent, fconfig, fpos, code_block,
                   in_code_block, formatted_content>>
    /\ UNCHANGED <<mainVars, sideVars>>

FenceNext == FenceLine \/ FenceReturn

FenceSpec == FenceInit /\ [][FenceNext]_vars


----------------------------------------------------------------------------
(* _format_code_snippet step by step, with the temporary directory: a set  *)
(* of files, each a path and its contents.                                 *)

\* The snippets SnipCall draws from.
Snippets == { <<>>,
              <<"x">>,
              <<" ", " ", "y">>,
              <<"x", "\n", " ", " ", "y">>,
              <<"\n", " ", "y", " ">> }

\* Lines 187-190: NamedTemporaryFile(delete=False) and write: a new file.
create_temp(dir, path, text) == dir \cup {[path |-> path, text |-> text]}

\* black.format_file_in_place rewriting the file it was given.
write_temp(dir, path, text) ==
    {f \in dir : f.path # path} \cup {[path |-> path, text |-> text]}

\* Lines 196-197: the contents of the file.
read_temp(dir, path) == (CHOOSE f \in dir : f.path = path).text

\* A finally clause that leaves the file where it is.
unlink_kept(dir, path) == dir

\* Line 211: os.unlink(temp_file_path).
unlink(dir, path) == {f \in dir : f.path # path}

SnipInit ==
    /\ sections = <<>>
    /\ black = "unset"
    /\ docstring = <<>>
    /\ pc = "off"
    /\ pass = 1
    /\ lines = <<>>
    /\ idx = 0
    /\ current_section = <<>>
    /\ current_content = <<>>
    /\ formatted_sections = <<>>
    /\ result = <<>>
    /\ first_result = <<>>
    /\ segments = <<>>
    /\ first_segments = <<>>
    /\ headers = {}
    /\ snippets = <<>>
    /\ NoFence
    /\ snip_code = <<>>
    /\ temp_files = {}
    /\ created = 0
    /\ temp_file_path = 0
    /\ snip_ret = <<>>
    /\ snip_exc = "none"
    /\ spc = "idle"
    /\ NoThreads
    /\ NoFiles
    /\ NoOuter

\* Lines 187-190: a call; the dedented snippet is written to a new file.
SnipCall ==
    /\ spc \in {"idle", "returned", "raised"}
    /\ created < MaxSnippetCalls
    /\ \E c \in Snippets :
         /\ snip_code' = c
         /\ temp_files' = create_temp(temp_files, created + 1, Dedent(c))
    /\ created' = created + 1
    /\ temp_file_path' = created + 1
    /\ snip_ret' = <<>>
    /\ snip_exc' = "none"
    /\ spc' = "try"
    /\ UNCHANGED <<sections, black, snippets, mainVars, fenceVars, threadVars,
                   fileVars, outerVars>>

\* What line 194 leaves, black behaving as m and raising raises.
SnipBlackDone(m, raises) ==
    /\ black' = m
    /\ IF raises = "none"
       THEN /\ temp_files' = write_temp(temp_files, temp_file_path,
                                        BlackFile(m, read_temp(temp_files, temp_file_path)))
            /\ spc' = "read"
            /\ UNCHANGED snip_exc
       ELSE /\ snip_exc' = raises
            /\ spc' = IF raises \in {"NothingChanged", "InvalidInput"}
                      THEN "except" ELSE "finally"
            /\ UNCHANGED temp_files

\* Lines 193-194: black.format_file_in_place on the temporary file.
SnipBlack ==
    /\ spc = "try"
    /\ \E m \in BlackModes :
         /\ black \in {"unset", m}
         /\ SnipBlackDone(m, BlackRaises(m, read_temp(temp_files, temp_file_path)))
    /\ UNCHANGED <<snip_code, created, temp_file_path, snip_ret>>
    /\ UNCHANGED <<sections, snippets, mainVars, fenceVars, threadVars,
                   fileVars, outerVars>>

\* Lines 196-203: the file is read and its lines are indented again.
SnipRead ==
    /\ spc = "read"
    /\ snip_ret' = reindent(read_temp(temp_files, temp_file_path),
                            original_indent(snip_code))
    /\ spc' = "finally"
    /\ UNCHANGED <<snip_code, temp_files, created, temp_file_path, snip_exc>>
    /\ UNCHANGED <<sections, black, snippets, mainVars, fenceVars, threadVars,
                   fileVars, outerVars>>

\* Lines 205-209: the two except clauses.
SnipExcept ==
    /\ spc = "except"
    /\ snip_ret' = unformatted(snip_code)
    /\ snip_exc' = "none"
    /\ spc' = "finally"
    /\ UNCHANGED <<snip_code, temp_files, created, temp_file_path>>
    /\ UNCHANGED <<sections, black, snippets, mainVars, fenceVars, threadVars,
                   fileVars, outerVars>>

\* Lines 210-211: the finally clause, then the return or the exception.
SnipFinally ==
    /\ spc = "finally"
    /\ temp_files' = unlink(temp_files, temp_file_path)
    /\ spc' = IF snip_exc = "none" THEN "returned" ELSE "raised"
    /\ UNCHANGED <<snip_code, created, temp_file_path, snip_ret, snip_exc>>
    /\ UNCHANGED <<sections, black, snippets, mainVars, fenceVars, threadVars,
                   fileVars, outerVars>>

SnipNext == SnipCall \/ SnipBlack \/ SnipRead \/ SnipExcept \/ SnipFinally

SnippetSpec == SnipInit /\ [][SnipNext]_vars


----------------------------------------------------------------------------
(* Two callers of format_docstring on one formatter, their calls           *)
(* interleaved line by line.  The first formats a docstring; the second    *)
(* formats another docstring and then the first caller's.                  *)

Threads == {1, 2}

ThreadLines == { <<"x">>, <<"A", ":">>, <<"x", " ", "B", ":">> }

\* Every caller running in the frame of the first.
frame_shared(t) == 1

\* The frame that holds the locals of caller t's call: its own.
frame_of(t) == t

\* A caller that is not inside format_docstring.
IdleFrame ==
    [pc |-> "idle", docstring |-> <<>>, lines |-> <<>>, idx |-> 0,
     current_section |-> <<>>, current_content |-> <<>>,
     formatted_sections |-> <<>>, result |-> <<>>]

ThreadInit ==
    /\ sections = Schemas[1]
    /\ black = "unset"
    /\ docstring = <<>>
    /\ pc = "off"
    /\ pass = 1
    /\ lines = <<>>
    /\ idx = 0
    /\ current_section = <<>>
    /\ current_content = <<>>
    /\ formatted_sections = <<>>
    /\ result = <<>>
    /\ first_result = <<>>
    /\ segments = <<>>
    /\ first_segments = <<>>
    /\ headers = {}
    /\ snippets = <<>>
    /\ NoFence
    /\ NoSnippet
    /\ NoFiles
    /\ NoOuter
    /\ frames = [t \in Threads |-> IdleFrame]
    /\ returned = [t \in Threads |-> <<>>]
    /\ active = {}
    /\ \E d \in Docs(ThreadLines, MaxThreadLines) :
         \E e \in Docs(ThreadLines, MaxThreadLines) :
            queue = (1 :> <<Join(<<NL>>, d)>>)
                    @@ (2 :> <<Join(<<NL>>, e), Join(<<NL>>, d)>>)

\* Lines 52-66: caller t enters format_docstring with its next docstring.
TCall(t) ==
    /\ t \notin active
    /\ queue[t] # <<>>
    /\ active' = active \cup {t}
    /\ frames' = [frames EXCEPT ![frame_of(t)] =
                    [pc |-> "loop", docstring |-> Head(queue[t]),
                     lines |-> Split(Head(queue[t])), idx |-> 1,
                     current_section |-> identify_section(sections, <<>>),
                     current_content |-> <<>>,
                     formatted_sections |-> <<>>, result |-> <<>>]]
    /\ UNCHANGED <<sections, black, queue, returned>>

\* The frame fr after the append of lines 72-74 or 81-83, r being what
\* _format_section did.
TFlushed(fr, r, next) ==
    IF r.raised THEN [fr EXCEPT !.pc = "raised"]
    ELSE [next EXCEPT !.formatted_sections = Append(fr.formatted_sections, r.text)]

\* Lines 68-78 for the frame fr under black mode m.
TStepped(fr, m) ==
    IF section_changes(identify_section(sections, fr.lines[fr.idx]), fr.current_section)
    THEN IF flush_needed(fr.current_section, fr.current_content)
         THEN TFlushed(fr, format_section(fr.current_section, fr.current_content, m),
                       [fr EXCEPT !.current_section =
                                     identify_section(sections, fr.lines[fr.idx]),
                                  !.current_content = new_content(fr.current_content),
                                  !.idx = fr.idx + 1])
         ELSE [fr EXCEPT !.current_section =
                             identify_section(sections, fr.lines[fr.idx]),
                         !.current_content = new_content(fr.current_content),
                         !.idx = fr.idx + 1]
    ELSE [fr EXCEPT !.current_content = append_content(fr.current_content, fr.lines[fr.idx]),
                    !.idx = fr.idx + 1]

\* Lines 68-78: one iteration of caller t's loop.
TStep(t) ==
    /\ t \in active
    /\ frames[frame_of(t)].pc = "loop"
    /\ frames[frame_of(t)].idx <= Len(frames[frame_of(t)].lines)
    /\ \E m \in BlackModes :
         /\ black \in {"unset", m}
         /\ frames' = [frames EXCEPT ![frame_of(t)] = TStepped(frames[frame_of(t)], m)]
    /\ UNCHANGED <<sections, black, queue, returned, active>>

\* Lines 80-86 for the frame fr under black mode m.
TFinished(fr, m) ==
    IF flush_needed(fr.current_section, fr.current_content)
    THEN TFlushed(fr, format_section(fr.current_section, fr.current_content, m),
                  [fr EXCEPT !.pc = "join"])
    ELSE [fr EXCEPT !.pc = "join"]

\* Lines 80-83: caller t's flush after the loop.
TFinalFlush(t) ==
    /\ t \in active
    /\ frames[frame_of(t)].pc = "loop"
    /\ frames[frame_of(t)].idx > Len(frames[frame_of(t)].lines)
    /\ \E m \in BlackModes :
         /\ black \in {"unset", m}
         /\ frames' = [frames EXCEPT ![frame_of(t)] = TFinished(frames[frame_of(t)], m)]
    /\ UNCHANGED <<sections, black, queue, returned, active>>

\* Lines 85-86: caller t's call returns.
TReturn(t) ==
    /\ t \in active
    /\ frames[frame_of(t)].pc = "join"
    /\ active' = active \ {t}
    /\ frames' = [frames EXCEPT ![frame_of(t)] =
                    [frames[frame_of(t)] EXCEPT
                        !.pc = "done",
                        !.result = format_result(
                            frames[frame_of(t)].formatted_sections)]]
    /\ returned' = [returned EXCEPT ![t] =
                      Append(@, [docstring |-> Head(queue[t]),
                                 result |-> format_result(
                                     frames[frame_of(t)].formatted_sections)])]
    /\ queue' = [queue EXCEPT ![t] = Tail(queue[t])]
    /\ UNCHANGED <<sections, black>>

ThreadNext ==
    /\ \E t \in Threads : TCall(t) \/ TStep(t) \/ TFinalFlush(t) \/ TReturn(t)
    /\ UNCHANGED <<snippets, mainVars, fenceVars, snipVars, fileVars,
                   outerVars>>

ThreadSpec == ThreadInit /\ [][ThreadNext]_vars


----------------------------------------------------------------------------
(* Docstrings laid out section by section, in schemas with no empty        *)
(* marker: the one of Scenario A, and a narrow one.                        *)

SummaryMarked ==
    [name |-> "Summary", marker |-> <<"S", "u", "m", "m", "a", "r", "y", ":">>]

ParametersMarked ==
    [name |-> "Parameters",
     marker |-> <<"P", "a", "r", "a", "m", "e", "t", "e", "r", "s", ":">>]

\* "Summary:\nHello.\n\nParameters:\nx (int): thing"
ScenarioA ==
    <<"S", "u", "m", "m", "a", "r", "y", ":", "\n", "H", "e", "l", "l",
      "o", ".", "\n", "\n", "P", "a", "r", "a", "m", "e", "t", "e", "r",
      "s", ":", "\n", "x", " ", "(", "i", "n", "t", ")", ":", " ", "t",
      "h", "i", "n", "g">>

\* The body lines ScenarioInit draws from.
BodyLines == { <<"x">>, <<" ", "x">>, <<"x", " ", "x">>, <<"x", "x", "x", "x">> }

\* What ScenarioInit puts between two sections.
Separators == { <<>>, << <<>> >>, << <<>>, <<>> >> }

ScenarioInit ==
    /\ \/ /\ sections = <<SummaryMarked, ParametersMarked>>
          /\ docstring = ScenarioA
       \/ /\ sections = <<ASec, BSec>>
          /\ \E h1 \in {ASec.marker, BSec.marker} :
               \E b1 \in Docs(BodyLines, MaxBodyLines) :
                  \/ docstring = Join(<<NL>>, <<h1>> \o b1)
                  \/ \E sep \in Separators :
                       \E h2 \in {ASec.marker, BSec.marker} :
                          \E b2 \in Docs(BodyLines, MaxBodyLines) :
                             docstring = Join(<<NL>>, (((<<h1>> \o b1) \o sep)
                                                         \o <<h2>>) \o b2)
    /\ black = "unset"
    /\ pc = "start"
    /\ pass = 1
    /\ lines = <<>>
    /\ idx = 0
    /\ current_section = <<>>
    /\ current_content = <<>>
    /\ formatted_sections = <<>>
    /\ result = <<>>
    /\ first_result = <<>>
    /\ segments = <<>>
    /\ first_segments = <<>>
    /\ headers = {}
    /\ snippets = <<>>
    /\ NoFence
    /\ NoSide

ScenarioSpec == ScenarioInit /\ [][Next]_vars


----------------------------------------------------------------------------
(* format_files and format_file step by step.  A file is a record: whether *)
(* it exists, whether its source parses, and what has been applied to its  *)
(* contents since the start, in order.                                     *)

Paths == {"a.py", "b.py", "c.py"}

Configs == {"config_1", "config_2"}

Missing == [exists |-> FALSE, parses |-> FALSE, applied |-> <<>>]

Unparsable == [exists |-> TRUE, parses |-> FALSE, applied |-> <<>>]

Source == [exists |-> TRUE, parses |-> TRUE, applied |-> <<>>]

\* ast.parse that accepts every source.
parse_outcome_lenient(file) ==
    IF ~file.exists THEN "FileNotFoundError" ELSE "none"

\* Lines 300-301: what open(file_path, "r") and ast.parse raise.
parse_outcome(file) ==
    IF ~file.exists THEN "FileNotFoundError"
    ELSE IF ~file.parses THEN "SyntaxError"
    ELSE "none"

\* A write that leaves the file as it was.
applied_to_nothing(file, what) == file

\* A file after a write: "docstrings" for lines 307-308, "black" and "isort"
\* for what the two tools write.
applied_to(file, what) == [file EXCEPT !.applied = Append(file.applied, what)]

\* Line 324: format_file(file_path, config).
format_file_call(path, cfg) == [op |-> "format_file", path |-> path, config |-> cfg]

\* Lines 307-308: the write to file_path.
write_event(path, cfg) == [op |-> "write", path |-> path, config |-> cfg]

\* Line 311: run_black(file_path, config).
run_black_call(path, cfg) == [op |-> "run_black", path |-> path, config |-> cfg]

\* run_isort called without the configuration.
run_isort_call_unconfigured(path, cfg) ==
    [op |-> "run_isort", path |-> path, config |-> "none"]

\* Line 312: run_isort(file_path, config).
run_isort_call(path, cfg) == [op |-> "run_isort", path |-> path, config |-> cfg]

\* A loop that leaves out every other path.
next_index_skip(i) == i + 2

\* Line 323: the for loop goes to the next path.
next_index(i) == i + 1

FilesInit ==
    /\ sections = <<>>
    /\ black = "unset"
    /\ docstring = <<>>
    /\ pc = "off"
    /\ pass = 1
    /\ lines = <<>>
    /\ idx = 0
    /\ current_section = <<>>
    /\ current_content = <<>>
    /\ formatted_sections = <<>>
    /\ result = <<>>
    /\ first_result = <<>>
    /\ segments = <<>>
    /\ first_segments = <<>>
    /\ headers = {}
    /\ snippets = <<>>
    /\ NoFence
    /\ NoSnippet
    /\ NoThreads
    /\ NoOuter
    /\ files \in [Paths -> {Missing, Unparsable, Source}]
    /\ file_paths \in {<<>>} \cup Docs(Paths, MaxPaths)
    /\ config \in Configs
    /\ file_idx = 1
    /\ file_pc = "loop"
    /\ file_exc = "none"
    /\ files_at_call = files
    /\ log = <<>>

\* Lines 323-324: format_files calls format_file with the next path.
FilesLoop ==
    /\ file_pc = "loop"
    /\ file_idx <= Len(file_paths)
    /\ log' = Append(log, format_file_call(file_paths[file_idx], config))
    /\ files_at_call' = files
    /\ file_pc' = "open"
    /\ UNCHANGED <<files, file_paths, config, file_idx, file_exc>>

\* Line 323: the list is exhausted, format_files returns.
FilesReturn ==
    /\ file_pc = "loop"
    /\ file_idx > Len(file_paths)
    /\ file_pc' = "returned"
    /\ UNCHANGED <<files, file_paths, config, file_idx, file_exc, files_at_call, log>>

\* Lines 300-301: the file is opened, read and parsed.
FileOpen ==
    /\ file_pc = "open"
    /\ IF parse_outcome(files[file_paths[file_idx]]) = "none"
       THEN file_pc' = "visit" /\ UNCHANGED file_exc
       ELSE /\ file_pc' = "raised"
            /\ file_exc' = parse_outcome(files[file_paths[file_idx]])
    /\ UNCHANGED <<files, file_paths, config, file_idx, files_at_call, log>>

\* Lines 303-305: the docstrings of the tree are formatted; an exception of
\* format_docstring leaves format_file.
FileVisit ==
    /\ file_pc = "visit"
    /\ \/ file_pc' = "write" /\ UNCHANGED file_exc
       \/ file_pc' = "raised" /\ file_exc' = "Exception"
    /\ UNCHANGED <<files, file_paths, config, file_idx, files_at_call, log>>

\* Lines 307-308: the unparsed tree is written to the file.
FileWrite ==
    /\ file_pc = "write"
    /\ files' = [files EXCEPT ![file_paths[file_idx]] =
                    applied_to(files[file_paths[file_idx]], "docstrings")]
    /\ log' = Append(log, write_event(file_paths[file_idx], config))
    /\ file_pc' = "run_black"
    /\ UNCHANGED <<file_paths, config, file_idx, file_exc, files_at_call>>

\* Line 311: run_black, which formats the file in place or raises.
FileRunBlack ==
    /\ file_pc = "run_black"
    /\ log' = Append(log, run_black_call(file_paths[file_idx], config))
    /\ \/ /\ files' = [files EXCEPT ![file_paths[file_idx]] =
                          applied_to(files[file_paths[file_idx]], "black")]
          /\ file_pc' = "run_isort"
          /\ UNCHANGED file_exc
       \/ /\ file_pc' = "raised"
          /\ file_exc' = "Exception"
          /\ UNCHANGED files
    /\ UNCHANGED <<file_paths, config, file_idx, files_at_call>>

\* Line 312: run_isort, which sorts the imports in place or raises; then
\* format_file returns to the loop.
FileRunIsort ==
    /\ file_pc = "run_isort"
    /\ log' = Append(log, run_isort_call(file_paths[file_idx], config))
    /\ \/ /\ files' = [files EXCEPT ![file_paths[file_idx]] =
                          applied_to(files[file_paths[file_idx]], "isort")]
          /\ file_pc' = "loop"
          /\ file_idx' = next_index(file_idx)
          /\ UNCHANGED file_exc
       \/ /\ file_pc' = "raised"
          /\ file_exc' = "Exception"
          /\ UNCHANGED <<files, file_idx>>
    /\ UNCHANGED <<file_paths, config, files_at_call>>

FilesNext ==
    /\ \/ FilesLoop
       \/ FilesReturn
       \/ FileOpen
       \/ FileVisit
       \/ FileWrite
       \/ FileRunBlack
       \/ FileRunIsort
    /\ UNCHANGED <<sections, black, snippets, mainVars, fenceVars, snipVars,
                   threadVars, outerVars>>

FilesSpec == FilesInit /\ [][FilesNext]_vars


----------------------------------------------------------------------------
(* main of blackplus/cli.py.  A command-line path comes with what the file *)
(* system has there: a regular file, a directory with the files os.walk    *)
(* finds under it, or nothing.  py says whether a name ends with ".py".    *)

PyFile == [path |-> "a.py", kind |-> "file", py |-> TRUE, walk |-> <<>>]

TextFile == [path |-> "notes.txt", kind |-> "file", py |-> FALSE, walk |-> <<>>]

GonePy == [path |-> "gone.py", kind |-> "missing", py |-> TRUE, walk |-> <<>>]

Package ==
    [path |-> "pkg", kind |-> "dir", py |-> FALSE,
     walk |-> <<[joined |-> "pkg/m.py", py |-> TRUE],
                [joined |-> "pkg/README", py |-> FALSE],
                [joined |-> "pkg/sub/n.py", py |-> TRUE]>>]

EmptyDir == [path |-> "docs", kind |-> "dir", py |-> FALSE, walk |-> <<>>]

CliPaths == {PyFile, TextFile, GonePy, Package, EmptyDir}

\* The classes an exception is an instance of.
mro(exc) ==
    CASE exc = "FileNotFoundError" ->
            {"FileNotFoundError", "OSError", "Exception", "BaseException"}
      [] exc = "PermissionError" ->
            {"PermissionError", "OSError", "Exception", "BaseException"}
      [] exc = "TomlDecodeError" ->
            {"TomlDecodeError", "ValueError", "Exception", "BaseException"}
      [] exc = "ValueError" -> {"ValueError", "Exception", "BaseException"}
      [] exc = "SyntaxError" -> {"SyntaxError", "Exception", "BaseException"}
      [] exc = "AttributeError" -> {"AttributeError", "Exception", "BaseException"}
      [] exc = "KeyboardInterrupt" -> {"KeyboardInterrupt", "BaseException"}

\* What read_config raises on lines 33-35 of formatter.py: open fails, the
\* TOML does not decode, or "tool" is not a table.
ConfigErrors ==
    {"FileNotFoundError", "PermissionError", "TomlDecodeError", "AttributeError"}

\* What can come out of format_files: what format_file raises, and an
\* interrupt of the user.
FormatErrors ==
    {"FileNotFoundError", "PermissionError", "SyntaxError", "ValueError",
     "AttributeError", "KeyboardInterrupt"}

\* A handler for a missing file only.
config_caught_not_found(exc) == "FileNotFoundError" \in mro(exc)

\* Lines 77 and 80: except FileNotFoundError, except (IOError, ValueError);
\* IOError is OSError.
config_caught(exc) ==
    mro(exc) \cap {"FileNotFoundError", "OSError", "ValueError"} # {}

\* Handlers for I/O errors and ValueError only.
format_caught_io(exc) == mro(exc) \cap {"OSError", "ValueError"} # {}

\* Lines 95, 98 and 102: except (IOError, OSError), except ValueError,
\* except Exception.
format_caught(exc) ==
    mro(exc) \cap {"OSError", "ValueError", "Exception"} # {}

\* Lines 61-64: the .py files os.walk finds under a directory.
RECURSIVE walk_python_files(_)
walk_python_files(walk) ==
    IF walk = <<>> THEN <<>>
    ELSE (IF Head(walk).py THEN <<Head(walk).joined>> ELSE <<>>)
         \o walk_python_files(Tail(walk))

\* get_python_files that also takes files that are not Python files.
RECURSIVE get_python_files_any(_)
get_python_files_any(paths) ==
    IF paths = <<>> THEN <<>>
    ELSE (IF Head(paths).kind = "file" THEN <<Head(paths).path>>
          ELSE IF Head(paths).kind = "dir"
               THEN walk_python_files(Head(paths).walk)
               ELSE <<>>)
         \o get_python_files_any(Tail(paths))

\* Lines 56-65: get_python_files.
RECURSIVE get_python_files(_)
get_python_files(paths) ==
    IF paths = <<>> THEN <<>>
    ELSE (IF Head(paths).kind = "file" /\ Head(paths).py
          THEN <<Head(paths).path>>
          ELSE IF Head(paths).kind = "dir"
               THEN walk_python_files(Head(paths).walk)
               ELSE <<>>)
         \o get_python_files(Tail(paths))

\* A call main makes, with its arguments.
cli_call(op, paths, cfg) == [op |-> op, paths |-> paths, config |-> cfg]

CliInit ==
    /\ sections = <<>>
    /\ black = "unset"
    /\ docstring = <<>>
    /\ pc = "off"
    /\ pass = 1
    /\ lines = <<>>
    /\ idx = 0
    /\ current_section = <<>>
    /\ current_content = <<>>
    /\ formatted_sections = <<>>
    /\ result = <<>>
    /\ first_result = <<>>
    /\ segments = <<>>
    /\ first_segments = <<>>
    /\ headers = {}
    /\ snippets = <<>>
    /\ NoFence
    /\ NoSnippet
    /\ NoThreads
    /\ NoFiles
    /\ NoTree
    /\ args_paths \in Docs(CliPaths, MaxArgs)
    /\ config_file \in Configs \cup ConfigErrors
    /\ cli_config = "none"
    /\ python_files = <<>>
    /\ exit_code = -1
    /\ cli_exc = "none"
    /\ cli_e = "none"
    /\ cli_pc = "read_config"
    /\ cli_log = <<>>

\* Lines 75-82: read_config, and sys.exit(1) in the two handlers.
MainReadConfig ==
    /\ cli_pc = "read_config"
    /\ cli_log' = Append(cli_log, cli_call("read_config", <<>>, "none"))
    /\ IF config_file \in Configs
       THEN /\ cli_config' = config_file
            /\ cli_pc' = "get_python_files"
            /\ UNCHANGED <<exit_code, cli_exc, cli_e>>
       ELSE IF config_caught(config_file)
       THEN /\ cli_e' = config_file
            /\ exit_code' = 1
            /\ cli_pc' = "exited"
            /\ UNCHANGED <<cli_config, cli_exc>>
       ELSE /\ cli_exc' = config_file
            /\ cli_pc' = "raised"
            /\ UNCHANGED <<cli_config, exit_code, cli_e>>
    /\ UNCHANGED <<args_paths, config_file, python_files>>

\* Line 84: the files are discovered.
MainGetPythonFiles ==
    /\ cli_pc = "get_python_files"
    /\ python_files' = get_python_files(args_paths)
    /\ cli_log' = Append(cli_log, cli_call("get_python_files", <<>>, "none"))
    /\ cli_pc' = "found"
    /\ UNCHANGED <<args_paths, config_file, cli_config, exit_code, cli_exc,
                   cli_e>>

\* Lines 86-90: sys.exit(0) when the list is empty.
MainNoFiles ==
    /\ cli_pc = "found"
    /\ IF python_files = <<>>
       THEN exit_code' = 0 /\ cli_pc' = "exited"
       ELSE cli_pc' = "format_files" /\ UNCHANGED exit_code
    /\ UNCHANGED <<args_paths, config_file, cli_config, python_files, cli_exc,
                   cli_e, cli_log>>

\* Lines 92-105: format_files returns or raises exc; sys.exit(1) in the
\* handlers.
MainFormatFiles ==
    /\ cli_pc = "format_files"
    /\ cli_log' = Append(cli_log, cli_call("format_files", python_files, cli_config))
    /\ \/ cli_pc' = "returned" /\ UNCHANGED <<exit_code, cli_exc, cli_e>>
       \/ \E exc \in FormatErrors :
            IF format_caught(exc)
            THEN /\ cli_e' = exc
                 /\ exit_code' = 1
                 /\ cli_pc' = "exited"
                 /\ UNCHANGED cli_exc
            ELSE /\ cli_exc' = exc
                 /\ cli_pc' = "raised"
                 /\ UNCHANGED <<exit_code, cli_e>>
    /\ UNCHANGED <<args_paths, config_file, cli_config, python_files>>

CliNext ==
    /\ \/ MainReadConfig
       \/ MainGetPythonFiles
       \/ MainNoFiles
       \/ MainFormatFiles
    /\ UNCHANGED <<sections, black, snippets, mainVars, fenceVars, snipVars,
                   threadVars, fileVars, treeVars>>

CliSpec == CliInit /\ [][CliNext]_vars


----------------------------------------------------------------------------
(* DocstringTransformer.  A tree is a function from node numbers to nodes; *)
(* node 1 is the Module, the parent of a node has a smaller number, and    *)
(* the children of a node are visited in the order of their numbers.  The  *)
(* docstring of a node is Optional: <<>> when the first statement of the   *)
(* body is not a string, <<s>> when it is the string s.                    *)

NodeKinds == {"FunctionDef", "AsyncFunctionDef", "ClassDef", "If"}

RawDocstrings == { <<>>,
                   << <<" ">> >>,
                   << <<"x">> >>,
                   << <<" ", "A", ":", "\n", " ", " ", "x">> >> }

RECURSIVE ExpandTabs(_, _)
\* str.expandtabs(): a tab goes to the next column that is a multiple of 8.
ExpandTabs(s, col) ==
    IF s = <<>> THEN <<>>
    ELSE IF Head(s) = "\t"
         THEN Spaces(8 - (col % 8)) \o ExpandTabs(Tail(s), 0)
    ELSE IF Head(s) = NL THEN <<NL>> \o ExpandTabs(Tail(s), 0)
    ELSE <<Head(s)>> \o ExpandTabs(Tail(s), col + 1)

\* inspect.cleandoc, which ast.get_docstring applies: the first line loses
\* its leading whitespace, the other lines their common margin, and the
\* empty lines at both ends are dropped.
Cleandoc(doc) ==
    LET ls == Split(ExpandTabs(doc, 0))
        m  == MinIndent(Tail(ls))
    IN Join(<<NL>>,
            DropLeadingBlank(DropTrailingBlank(
                [i \in 1..Len(ls) |->
                    IF i = 1 THEN LStrip(ls[1])
                    ELSE IF m = -1 THEN ls[i]
                    ELSE SubSeq(ls[i], m + 1, Len(ls[i]))])))

\* ast.get_docstring(node): None (here <<>>) without a docstring, else the
\* cleaned docstring.
get_docstring(node) ==
    IF node.docstring = <<>> THEN <<>> ELSE <<Cleandoc(node.docstring[1])>>

\* Lines 265 and 282: if ast.get_docstring(node), false for None and for "".
has_docstring(node) ==
    get_docstring(node) # <<>> /\ get_docstring(node)[1] # <<>>

RECURSIVE format_docstring_from(_, _, _, _, _, _, _)
\* Lines 68-83 of format_docstring, from line i of ls on.
format_docstring_from(secs, mode, ls, i, sec, content, done) ==
    IF i > Len(ls)
    THEN (IF flush_needed(sec, content)
          THEN Append(done, format_section(sec, content, mode).text)
          ELSE done)
    ELSE IF section_changes(identify_section(secs, ls[i]), sec)
    THEN format_docstring_from(secs, mode, ls, i + 1,
                               identify_section(secs, ls[i]), <<>>,
                               IF flush_needed(sec, content)
                               THEN Append(done,
                                           format_section(sec, content, mode).text)
                               ELSE done)
    ELSE format_docstring_from(secs, mode, ls, i + 1, sec,
                               Append(content, ls[i]), done)

\* Lines 52-86: format_docstring as a whole.
format_docstring(secs, mode, doc) ==
    format_result(format_docstring_from(secs, mode, Split(doc), 1,
                                        identify_section(secs, <<>>),
                                        <<>>, <<>>))

\* A dispatch without visit_AsyncFunctionDef.
visitor_sync(kind) ==
    IF kind = "FunctionDef" THEN "visit_FunctionDef"
    ELSE IF kind = "ClassDef" THEN "visit_ClassDef"
    ELSE "generic_visit"

\* NodeVisitor.visit: the method for a node of this kind; line 288 makes
\* visit_AsyncFunctionDef the same as visit_FunctionDef.
visitor(kind) ==
    IF kind \in {"FunctionDef", "AsyncFunctionDef"} THEN "visit_FunctionDef"
    ELSE IF kind = "ClassDef" THEN "visit_ClassDef"
    ELSE "generic_visit"

RECURSIVE PostOrder(_, _)
\* The order in which the visitors finish under node n: generic_visit (lines
\* 264 and 281) goes through the children before the node's own docstring.
PostOrder(t, n) ==
    LET RECURSIVE Over(_)
        Over(kids) ==
            IF kids = {} THEN <<>>
            ELSE LET k == CHOOSE x \in kids : \A y \in kids : x <= y
                 IN PostOrder(t, k) \o Over(kids \ {k})
    IN Over({i \in DOMAIN t : t[i].parent = n}) \o <<n>>

\* The tree with n nodes under the Module, of parents par, kinds k and
\* docstrings d.
Tree(n, par, k, d) ==
    [i \in 1..(n + 1) |->
        IF i = 1
        THEN [kind |-> "Module", parent |-> 0, docstring |-> << <<"x">> >>]
        ELSE [kind |-> k[i], parent |-> par[i], docstring |-> d[i]]]

TreeInit ==
    /\ sections = Schemas[1]
    /\ black = "keep"
    /\ docstring = <<>>
    /\ pc = "off"
    /\ pass = 1
    /\ lines = <<>>
    /\ idx = 0
    /\ current_section = <<>>
    /\ current_content = <<>>
    /\ formatted_sections = <<>>
    /\ result = <<>>
    /\ first_result = <<>>
    /\ segments = <<>>
    /\ first_segments = <<>>
    /\ headers = {}
    /\ snippets = <<>>
    /\ NoFence
    /\ NoSnippet
    /\ NoThreads
    /\ NoFiles
    /\ NoCli
    /\ \E n \in 1..MaxNodes :
         \E par \in {f \in [2..(n + 1) -> 1..n] : \A i \in 2..(n + 1) : f[i] < i} :
            \E k \in [2..(n + 1) -> NodeKinds] :
               \E d \in [2..(n + 1) -> RawDocstrings] :
                  /\ tree = Tree(n, par, k, d)
                  /\ tree_in = Tree(n, par, k, d)
                  /\ todo = PostOrder(Tree(n, par, k, d), 1)
    /\ visited = <<>>

\* Lines 265-268 and 282-285: the docstring is replaced by its formatting.
replace_docstring(n) ==
    IF has_docstring(tree[n])
    THEN /\ tree' = [tree EXCEPT ![n].docstring =
                        <<format_docstring(sections, black,
                                           get_docstring(tree[n])[1])>>]
         /\ visited' = Append(visited, n)
    ELSE UNCHANGED <<tree, visited>>

\* Lines 254-269: visit_FunctionDef finishes for the next node.
visit_FunctionDef ==
    /\ todo # <<>>
    /\ visitor(tree[Head(todo)].kind) = "visit_FunctionDef"
    /\ replace_docstring(Head(todo))
    /\ todo' = Tail(todo)
    /\ UNCHANGED tree_in

\* Lines 271-286: visit_ClassDef finishes for the next node.
visit_ClassDef ==
    /\ todo # <<>>
    /\ visitor(tree[Head(todo)].kind) = "visit_ClassDef"
    /\ replace_docstring(Head(todo))
    /\ todo' = Tail(todo)
    /\ UNCHANGED tree_in

\* NodeTransformer.generic_visit finishes for a node of another kind.
generic_visit ==
    /\ todo # <<>>
    /\ visitor(tree[Head(todo)].kind) = "generic_visit"
    /\ todo' = Tail(todo)
    /\ UNCHANGED <<tree, tree_in, visited>>

TreeNext ==
    /\ \/ visit_FunctionDef
       \/ visit_ClassDef
       \/ generic_visit
    /\ UNCHANGED <<sections, black, snippets, mainVars, fenceVars, snipVars,
                   threadVars, fileVars, cliVars>>

TreeSpec == TreeInit /\ [][TreeNext]_vars


----------------------------------------------------------------------------
(* format_docstring on docstrings with two segments of a code-example      *)
(* section: a header, lines of a fence, a line that may end the segment,   *)
(* the header again, and more lines of a fence.                            *)

SegmentLines == { <<" ", "~", "p">>,
                  <<"~">>,
                  <<" ", " ", "y">> }

\* A schema and a line that its classifier gives to another section than E.
Breakers == { [schema |-> <<SummarySec, ESec>>, line |-> <<>>],
              [schema |-> <<ASec, ESec>>, line |-> <<"A", ":">>] }

SegmentsInit ==
    /\ \E br \in Breakers :
         /\ sections = br.schema
         /\ \E b1 \in Docs(SegmentLines, MaxSegmentLines) :
              \E b2 \in Docs(SegmentLines, MaxSegmentLines) :
                 docstring = Join(<<NL>>, (((<<ESec.marker>> \o b1) \o <<br.line>>)
                                             \o <<ESec.marker>>) \o b2)
    /\ black = "unset"
    /\ pc = "start"
    /\ pass = 1
    /\ lines = <<>>
    /\ idx = 0
    /\ current_section = <<>>
    /\ current_content = <<>>
    /\ formatted_sections = <<>>
    /\ result = <<>>
    /\ first_result = <<>>
    /\ segments = <<>>
    /\ first_segments = <<>>
    /\ headers = {}
    /\ snippets = <<>>
    /\ NoFence
    /\ NoSide

SegmentsSpec == SegmentsInit /\ [][Next]_vars


----------------------------------------------------------------------------
(* Properties.                                                             *)

\* The lists of ls, one after the other.
Concat(ls) == Join(<<>>, ls)

\* run occurs in ls as consecutive elements.
ContainsRun(ls, run) ==
    \E p \in 0..(Len(ls) - Len(run)) : SubSeq(ls, p + 1, p + Len(run)) = run

\* The buffers of the segments flushed so far, one after the other.
Buffered == Concat([j \in 1..Len(segments) |-> segments[j].content])

\* C1 (as claimed): when _format_code_example returns while inside a fence
\* (a start marker was seen and no end marker closed it), every buffered body
\* line is in its output, unmodified and in the original order.
C1_UnterminatedFenceEmitsBody ==
    (fpc = "returned" /\ in_code_block) =>
        ContainsRun(formatted_content, code_block)

\* C2 (as claimed): after the last flush the buffers of the segments, in segment
\* order, give back every input line, header lines included, none dropped and
\* none duplicated.
C2_PartitionAllLines ==
    pc = "join" => Buffered = lines

\* C3 (as claimed): formatting the result of format_docstring again gives the
\* same result.
C3_Idempotent ==
    (pc = "done" /\ pass = 2) => result = first_result


\* The last call of _format_code_snippet.
LastCall == snippets[Len(snippets)]

\* The line just read by _format_code_example closed a fenced block.
BlockClosed ==
    /\ fpc \in {"loop", "returned"}
    /\ fpos > 1
    /\ Strip(fcontent[fpos - 1]) = fconfig.end_marker
    /\ Strip(fcontent[fpos - 1]) # fconfig.start_marker
    /\ snippets # <<>>
    /\ LastCall.inside

\* Columns of leading whitespace of the start-marker line of the block just closed.
StartIndent ==
    LET q == CHOOSE i \in 1..(fpos - 2) :
                 /\ Strip(fcontent[i]) = fconfig.start_marker
                 /\ \A j \in (i + 1)..(fpos - 2) :
                        Strip(fcontent[j]) # fconfig.start_marker
    IN LeadingSpace(fcontent[q])

\* The lines emitted for the body of the block just closed.
Emitted == Split(LastCall.ret)

\* What black left in the temporary file for the block just closed.
BlackLines == SplitLines(BlackFile(black, Dedent(LastCall.snippet)))

RECURSIVE MarkerLines(_)
MarkerLines(ls) ==
    IF ls = <<>> THEN <<>>
    ELSE (IF /\ identify_section(sections, ls[1]) # <<>>
             /\ identify_section(sections, ls[1])[1].marker # <<>>
          THEN <<identify_section(sections, ls[1])[1].marker>>
          ELSE <<>>) \o MarkerLines(Tail(ls))

\* C5 (as claimed): the markers of the header lines of the result are those of
\* the header lines of the input, in the same order, none lost or added.
C5_MarkerRoundTrip ==
    pc = "done" => MarkerLines(Split(result)) = MarkerLines(lines)

\* A segment of a section that is wrapped as prose.
IsProse(sg) == sg.section # <<>> /\ "code_example" \notin DOMAIN sg.section[1]

SegWidth(sg) == Get(sg.section[1], "width", DefaultWidth)

\* The characters of a list of lines that are not whitespace.
Ink(ls) == SelectSeq(Concat(ls), LAMBDA c : ~IsSpace(c))

\* C6 (as claimed, its exception): a token longer than the width is emitted
\* alone on a line of its own, not broken.
C6_LongTokenUnbroken ==
    \A j \in 1..Len(segments) :
        IsProse(segments[j]) =>
            \A i \in 1..Len(segments[j].content) :
                \A t \in 1..Len(Chunks(Strip(segments[j].content[i]))) :
                    LET tok == Chunks(Strip(segments[j].content[i]))[t]
                    IN (~IsBlank(tok) /\ Len(tok) > SegWidth(segments[j])) =>
                          \E k \in 1..Len(segments[j].flines) :
                              segments[j].flines[k] = tok

\* C6 (amended): every line _format_section produces for a prose section is at
\* most the width long, a token longer than the width being broken; every blank
\* input line gives exactly one empty line and no other line is empty; no
\* character other than whitespace is lost or added.
C6_WidthBound ==
    \A j \in 1..Len(segments) :
        IsProse(segments[j]) =>
            /\ \A k \in 1..Len(segments[j].flines) :
                   Len(segments[j].flines[k]) <= SegWidth(segments[j])
            /\ Cardinality({k \in 1..Len(segments[j].flines) :
                               segments[j].flines[k] = <<>>})
                 = Cardinality({i \in 1..Len(segments[j].content) :
                                   IsBlank(segments[j].content[i])})
            /\ Ink(segments[j].flines) = Ink(segments[j].content)

\* C6 witness: a prose segment with a token longer than its width, broken.
C6_Witness ==
    \E j \in 1..Len(segments) :
        /\ IsProse(segments[j])
        /\ \E i \in 1..Len(segments[j].content) :
               /\ Chunks(Strip(segments[j].content[i])) # <<>>
               /\ Len(Chunks(Strip(segments[j].content[i]))[1]) > SegWidth(segments[j])
        /\ \E i \in 1..Len(segments[j].content) : IsBlank(segments[j].content[i])
        /\ Len(segments[j].flines) > Len(segments[j].content)

\* The code_example configuration of the schema.
CodeConfig ==
    sections[CHOOSE i \in 1..Len(sections) :
                 "code_example" \in DOMAIN sections[i]].code_example

Matches(sec, line) ==
    IF sec.marker = <<>> THEN Strip(line) = <<>>
    ELSE StartsWith(Strip(line), sec.marker)

\* C8: every line is classified to the first section of the schema whose rule
\* matches its stripped form, and to none when no rule matches.
C8_Classification ==
    \A i \in 1..Len(lines) :
        IF \E k \in 1..Len(sections) : Matches(sections[k], lines[i])
        THEN identify_section(sections, lines[i])
                = <<sections[CHOOSE k \in 1..Len(sections) :
                                 /\ Matches(sections[k], lines[i])
                                 /\ \A h \in 1..(k - 1) :
                                        ~Matches(sections[h], lines[i])]>>
        ELSE identify_section(sections, lines[i]) = <<>>

\* C8 witness: a docstring with an indented line that two sections match, a
\* blank line matched by the empty marker, and a line no section matches.
C8_Witness ==
    /\ pc = "loop"
    /\ \E i \in 1..Len(lines) :
         /\ LeadingSpace(lines[i]) > 0
         /\ Cardinality({k \in 1..Len(sections) : Matches(sections[k], lines[i])}) = 2
    /\ \E i \in 1..Len(lines) :
         \A k \in 1..Len(sections) : ~Matches(sections[k], lines[i])


\* The classification of the line the loop of format_docstring is at.
Cls == identify_section(sections, lines[idx])

\* The loop has dealt with one line.
LineDone == pc = "loop" /\ idx <= Len(lines) /\ idx' = idx + 1

\* The segment accumulated so far has been formatted and emitted, after the
\* segments emitted before it.
SegmentEmitted ==
    /\ Len(segments') = Len(segments) + 1
    /\ SubSeq(segments', 1, Len(segments)) = segments
    /\ segments'[Len(segments')].section = current_section
    /\ segments'[Len(segments')].content = current_content
    /\ formatted_sections'
         = Append(formatted_sections, segments'[Len(segments')].text)

\* The line has been added to the segment being accumulated.
LineAppended ==
    /\ current_content' = Append(current_content, lines[idx])
    /\ current_section' = current_section
    /\ segments' = segments
    /\ formatted_sections' = formatted_sections

\* C9: a new segment is started only by a line classified to a section other
\* than the current one; a line classified to the current section again is
\* added to the segment without splitting it; the section does not change
\* while lines are added; segments are emitted one after the other, each after
\* all segments whose lines come earlier in the input.
C9_SegmentBoundaries ==
    [][ LineDone =>
          /\ (\/ current_section' # current_section
              \/ segments' # segments
              \/ current_content' # Append(current_content, lines[idx]))
                => (Cls # <<>> /\ Cls # current_section)
          /\ Cls = current_section => LineAppended
          /\ Len(current_content') > Len(current_content)
                => current_section' = current_section
          /\ segments' # segments => SegmentEmitted
          /\ \A j \in 1..Len(segments') : \A k \in 1..Len(segments') :
                j < k => segments'[j].last < segments'[k].last ]_vars

\* C9 witness: a line classified to the current section has been added to the
\* segment of that section, after another segment was emitted.
C9_Witness ==
    /\ pc = "loop"
    /\ segments # <<>>
    /\ current_section # <<>>
    /\ current_section[1].marker # <<>>
    /\ \E i \in 1..Len(current_content) :
         identify_section(sections, current_content[i]) = current_section

\* C10 (as claimed): a line whose classification, a section or none, differs
\* from the current section makes that classification the current section and
\* starts an empty buffer; any other line is appended to the buffer.
C10_AnyDifferenceStartsSegment ==
    [][ LineDone =>
          IF Cls # current_section
          THEN current_section' = Cls /\ current_content' = <<>>
          ELSE LineAppended ]_vars

\* C10 (amended): a line classified to a section, and to another one than the
\* current section, makes that section the current one and starts an empty
\* buffer, the segment before it being emitted unless it had neither a section
\* nor a line; every other line, a line classified to none included, is
\* appended to the current buffer. Hence every line of a segment is classified
\* to the segment's section or to none.
C10_AccumulationStep ==
    [][ LineDone =>
          /\ IF Cls # <<>> /\ Cls # current_section
             THEN /\ current_section' = Cls
                  /\ current_content' = <<>>
                  /\ IF current_section # <<>> \/ current_content # <<>>
                     THEN SegmentEmitted
                     ELSE segments' = segments
             ELSE LineAppended
          /\ \A i \in 1..Len(current_content') :
               identify_section(sections, current_content'[i])
                   \in {<<>>, current_section'}
          /\ \A j \in 1..Len(segments') :
               \A i \in 1..Len(segments'[j].content) :
                   identify_section(sections, segments'[j].content[i])
                       \in {<<>>, segments'[j].section} ]_vars

\* C10 witness: a line classified to none has been appended to the buffer of a
\* marked section.
C10_Witness ==
    /\ pc = "loop"
    /\ current_section # <<>>
    /\ current_section[1].marker # <<>>
    /\ \E i \in 1..Len(current_content) :
         identify_section(sections, current_content[i]) = <<>>

\* The loop is at a line that changes the section and gets past it, or the
\* input has ended and the last flush is done.
FlushPoint ==
    \/ LineDone /\ Cls # <<>> /\ Cls # current_section
    \/ pc = "loop" /\ idx > Len(lines) /\ pc' = "join"

\* The markers of the segments that have a marker and an empty buffer.
BodylessMarkers(segs) ==
    {segs[j].section[1].marker : j \in {i \in 1..Len(segs) :
        /\ segs[i].section # <<>>
        /\ segs[i].section[1].marker # <<>>
        /\ segs[i].content = <<>>}}

\* C11: when the section changes or the input ends, a segment is produced for
\* the current section even when its buffer is empty, and none is produced
\* when the current section is none and the buffer is empty; the marker of
\* every section that had no body is a line of the result.
C11_FlushRule ==
    [][ /\ FlushPoint =>
             IF current_section = <<>> /\ current_content = <<>>
             THEN segments' = segments /\ formatted_sections' = formatted_sections
             ELSE SegmentEmitted
        /\ (pc = "join" /\ pc' = "done") =>
             \A mk \in BodylessMarkers(segments) :
                 \E i \in 1..Len(Split(result')) : Split(result')[i] = mk ]_vars

\* C11 witness: a result for a docstring that starts with a header line, in a
\* schema with no empty marker, and has a section with no body.
C11_Witness ==
    /\ pc = "done"
    /\ identify_section(sections, <<>>) = <<>>
    /\ 1 \in headers
    /\ Len(segments) >= 2
    /\ segments[1].section # <<>>
    /\ BodylessMarkers(segments) # {}

\* Every string of a list, stripped.
StripAll(parts) == [i \in 1..Len(parts) |-> Strip(parts[i])]

\* C12 (as claimed): the result has no empty formatted segment, has the
\* formatted segments separated by exactly one blank line, also after a marker
\* with an empty body, and has no leading or trailing whitespace.
C12_OneBlankLineBetween ==
    pc = "done" =>
        /\ result = Join(<<NL, NL>>, StripAll(NonEmpty(formatted_sections)))
        /\ \A i \in 1..Len(NonEmpty(formatted_sections)) :
               Strip(NonEmpty(formatted_sections)[i]) # <<>>
        /\ Strip(result) = result

RECURSIVE TrimBlankLines(_)
\* A list of lines without the blank lines at its two ends.
TrimBlankLines(ls) ==
    IF ls = <<>> THEN <<>>
    ELSE IF IsBlank(ls[1]) THEN TrimBlankLines(Tail(ls))
    ELSE IF IsBlank(ls[Len(ls)]) THEN TrimBlankLines(SubSeq(ls, 1, Len(ls) - 1))
    ELSE ls

\* What follows the marker and the newline in the text of a segment, the
\* whole text for the empty marker.
BodyOf(sg) ==
    IF sg.section[1].marker = <<>> THEN sg.text
    ELSE SubSeq(sg.text, Len(sg.section[1].marker) + 2, Len(sg.text))

\* The text of a segment starts with the marker and a newline, for a marker
\* that is not empty.
MarkerFirst(sg) ==
    sg.section[1].marker # <<>> =>
        /\ Len(sg.text) > Len(sg.section[1].marker)
        /\ SubSeq(sg.text, 1, Len(sg.section[1].marker) + 1)
             = sg.section[1].marker \o <<NL>>

\* The text of a segment with no section: its lines stripped, the empty ones
\* left out, joined by newlines.
Passthrough(sg) ==
    sg.text = Join(<<NL>>, SelectSeq(StripAll(sg.content), LAMBDA l : l # <<>>))

\* b is j without the whitespace at its two ends.
IsStripOf(b, j) ==
    IF IsBlank(j) THEN b = <<>>
    ELSE /\ b # <<>>
         /\ ~IsSpace(b[1])
         /\ ~IsSpace(b[Len(b)])
         /\ \E i \in 1..Len(j) :
              /\ i + Len(b) - 1 <= Len(j)
              /\ SubSeq(j, i, i + Len(b) - 1) = b
              /\ IsBlank(SubSeq(j, 1, i - 1))
              /\ IsBlank(SubSeq(j, i + Len(b), Len(j)))

\* C13 (as claimed): _format_section returns the marker, a newline and the
\* body for a marker that is not empty and the body alone for the empty
\* marker, the body being the formatted lines without the blank lines at
\* their two ends, joined by newlines; with no section it returns the
\* stripped non-empty lines joined by newlines.
C13_BodyTrimsBlankLines ==
    \A j \in 1..Len(segments) :
        ~segments[j].raised =>
            IF segments[j].section = <<>> THEN Passthrough(segments[j])
            ELSE /\ MarkerFirst(segments[j])
                 /\ BodyOf(segments[j])
                      = Join(<<NL>>, TrimBlankLines(segments[j].flines))

\* C13 (amended): as claimed, but the body is the formatted lines joined by
\* newlines and then stripped of all whitespace at its two ends: besides the
\* blank lines, the indentation of the first line left and the trailing
\* whitespace of the last line left are removed.
C13_SectionShape ==
    \A j \in 1..Len(segments) :
        ~segments[j].raised =>
            IF segments[j].section = <<>> THEN Passthrough(segments[j])
            ELSE /\ MarkerFirst(segments[j])
                 /\ IsStripOf(BodyOf(segments[j]),
                              Join(<<NL>>, segments[j].flines))

\* C13 witness: a formatted segment of a marked section whose first formatted
\* line is indented, after a segment with no section.
C13_Witness ==
    /\ \E j \in 1..Len(segments) :
         /\ ~segments[j].raised
         /\ segments[j].section # <<>>
         /\ segments[j].section[1].marker # <<>>
         /\ segments[j].flines # <<>>
         /\ LeadingSpace(segments[j].flines[1]) > 0
         /\ ~IsBlank(segments[j].flines[1])
    /\ \E j \in 1..Len(segments) :
         segments[j].section = <<>> /\ segments[j].content # <<>>

\* C14: format_docstring of the empty string, or of blank lines only, returns
\* the empty string and raises nothing, whatever the schema.
C14_EmptyInput ==
    /\ pc # "raised"
    /\ pc = "done" => result = <<>>

\* C14 witness: the result for a docstring of several lines, one of them of
\* whitespace, in a schema with no empty marker.
C14_Witness ==
    /\ pc = "done"
    /\ pass = 1
    /\ identify_section(sections, <<>>) = <<>>
    /\ Len(lines) >= 2
    /\ \E i \in 1..Len(lines) : lines[i] # <<>>
    /\ \A i \in 1..Len(lines) : IsBlank(lines[i])

SnipAgrees ==
    /\ spc = "returned" =>
          /\ ~format_code_snippet(snip_code, black).raised
          /\ snip_ret = format_code_snippet(snip_code, black).ret
    /\ spc = "raised" => format_code_snippet(snip_code, black).raised

RECURSIVE Alone(_, _, _, _, _)
\* The formatted segments of a call that runs from line i on with nothing
\* else going on, sec, content and done being its section, buffer and
\* formatted segments so far.
Alone(ls, i, sec, content, done) ==
    IF i > Len(ls)
    THEN (IF sec # <<>> \/ content # <<>>
          THEN Append(done, format_section(sec, content, black).text)
          ELSE done)
    ELSE IF identify_section(sections, ls[i]) \in {<<>>, sec}
    THEN Alone(ls, i + 1, sec, Append(content, ls[i]), done)
    ELSE Alone(ls, i + 1, identify_section(sections, ls[i]), <<>>,
               IF sec # <<>> \/ content # <<>>
               THEN Append(done, format_section(sec, content, black).text)
               ELSE done)

\* What format_docstring returns for doc when nothing else is going on.
ResultAlone(doc) ==
    Strip(Join(<<NL, NL>>,
               SelectSeq(Alone(Split(doc), 1, identify_section(sections, <<>>),
                               <<>>, <<>>),
                         LAMBDA x : x # <<>>)))

\* C16: the calls of format_docstring never modify the schema; a step of one
\* caller changes no other caller's section, buffer or formatted segments;
\* and every finished call returned what a call on its docstring returns
\* with nothing else going on, so that calls on the same docstring returned
\* the same, whatever was formatted before them or at the same time.
C16_NoSharedState ==
    /\ [][ /\ sections' = sections
           /\ \A t \in Threads : \A u \in Threads :
                (t # u /\ frames'[t] # frames[t]) => frames'[u] = frames[u] ]_vars
    /\ [](\A t \in Threads : \A i \in 1..Len(returned[t]) :
            /\ returned[t][i].result = ResultAlone(returned[t][i].docstring)
            /\ \A u \in Threads : \A j \in 1..Len(returned[u]) :
                 returned[t][i].docstring = returned[u][j].docstring
                    => returned[t][i].result = returned[u][j].result)

\* C16 witness: the second caller has finished both its calls, on different
\* docstrings with different results, and returned from the first while the
\* first caller was inside its loop, which has finished since.
C16_Witness ==
    /\ Len(returned[1]) = 1
    /\ Len(returned[2]) = 2
    /\ returned[2][1].docstring # returned[2][2].docstring
    /\ returned[2][1].result # returned[2][2].result
    /\ returned[1][1].result = returned[2][2].result
    /\ Len(frames[1].lines) = 2

\* Line i is a marker of the schema and nothing else.
IsMarkerLine(i) == \E k \in 1..Len(sections) : lines[i] = sections[k].marker

\* The width of the section whose marker line is the nearest above line i.
WidthAbove(i) ==
    Get(identify_section(sections,
            lines[CHOOSE h \in 1..i :
                     /\ IsMarkerLine(h)
                     /\ \A g \in (h + 1)..i : ~IsMarkerLine(g)])[1],
        "width", DefaultWidth)

\* Line i is a body line: not blank, no section's header, no longer than the
\* width of its section.
IsBodyLine(i) ==
    /\ ~IsBlank(lines[i])
    /\ identify_section(sections, lines[i]) = <<>>
    /\ \E h \in 1..i : IsMarkerLine(h)
    /\ Len(lines[i]) <= WidthAbove(i)

\* The lines are sections, each a marker line followed by lines that body
\* allows, with one empty line between a section and the next.
Sectioned(body(_)) ==
    /\ lines # <<>>
    /\ IsMarkerLine(1)
    /\ body(Len(lines))
    /\ \A i \in 1..Len(lines) :
         \/ /\ IsMarkerLine(i)
            /\ i < Len(lines)
            /\ body(i + 1)
            /\ i > 1 => lines[i - 1] = <<>>
         \/ body(i)
         \/ /\ lines[i] = <<>>
            /\ i > 1
            /\ i < Len(lines)
            /\ body(i - 1)
            /\ IsMarkerLine(i + 1)

\* Line i is a body line with no whitespace at its two ends.
IsStrippedBodyLine(i) == IsBodyLine(i) /\ Strip(lines[i]) = lines[i]

IsPrefix(a, b) == Len(a) <= Len(b) /\ SubSeq(b, 1, Len(a)) = a

\* The positions of the log where format_file was called.
CallStarts == {i \in 1..Len(log) : log[i].op = "format_file"}

\* What the log has from the call of position i to the next call.
Group(i) ==
    SubSeq(log, i + 1,
           IF \E j \in CallStarts : j > i
           THEN (CHOOSE j \in CallStarts :
                    j > i /\ \A k \in CallStarts : k > i => j <= k) - 1
           ELSE Len(log))

\* The call of position i has returned.
HasReturned(i) ==
    \/ \E j \in CallStarts : j > i
    \/ file_pc \in {"loop", "returned"}

C19_ErrorsBeforeWrite ==
    /\ (file_pc = "raised" /\ ~files_at_call[file_paths[file_idx]].exists) =>
          file_exc = "FileNotFoundError"
    /\ (file_pc = "raised" /\ files_at_call[file_paths[file_idx]].exists
                           /\ ~files_at_call[file_paths[file_idx]].parses) =>
          file_exc = "SyntaxError"
    /\ (file_pc = "raised" /\ file_exc \in {"FileNotFoundError", "SyntaxError"}) =>
          /\ files = files_at_call
          /\ log[Len(log)].op = "format_file"
          /\ ~files[file_paths[file_idx]].parses
    /\ file_pc \in {"visit", "write", "run_black", "run_isort"} =>
          files_at_call[file_paths[file_idx]].parses

\* C19 witness: SyntaxError for the second path, after the first was
\* formatted.
C19_Witness ==
    /\ file_pc = "raised"
    /\ file_exc = "SyntaxError"
    /\ file_idx = 2
    /\ Len(log) = 5

\* The paths format_file was called with, in order.
CallPaths == [i \in 1..Cardinality(CallStarts) |->
                 log[CHOOSE j \in CallStarts :
                        Cardinality({k \in CallStarts : k <= j}) = i].path]

\* C20 (as claimed): when format_files has ended, format_file has been called
\* once for each path of the list, in list order.
C20_EveryPathCalled ==
    file_pc \in {"returned", "raised"} => CallPaths = file_paths

\* C20 (amended): format_file is called with the paths of the list in list
\* order, once for each, with the configuration of format_files, until a call
\* raises: the exception leaves format_files and the paths after it are not
\* called. When format_files returns every path has been called; with an
\* empty list there is no call and no exception.
C20_CallsInOrderUntilRaise ==
    /\ IsPrefix(CallPaths, file_paths)
    /\ \A i \in CallStarts : log[i].config = config
    /\ file_pc = "returned" => CallPaths = file_paths
    /\ file_pc = "raised" =>
          /\ file_idx <= Len(file_paths)
          /\ CallPaths = SubSeq(file_paths, 1, file_idx)
    /\ file_paths = <<>> => (log = <<>> /\ file_pc \in {"loop", "returned"})

\* C20 witness: the call for the first of two paths raised and format_file
\* was not called for the second.
C20_Witness ==
    /\ file_pc = "raised"
    /\ Len(file_paths) = 2
    /\ file_idx = 1
    /\ CallPaths = <<file_paths[1]>>

\* The calls of op that main has made.
CliCalls(op) == {i \in 1..Len(cli_log) : cli_log[i].op = op}

\* C21: when read_config fails with FileNotFoundError, an I/O error or a
\* ValueError, main exits with status 1 before it discovers any file, and
\* format_files is never called.
C21_ConfigFailureExits ==
    (cli_pc # "read_config" /\ config_file \notin Configs
        /\ mro(config_file) \cap {"FileNotFoundError", "OSError", "ValueError"} # {}) =>
        /\ cli_pc = "exited"
        /\ exit_code = 1
        /\ cli_exc = "none"
        /\ CliCalls("get_python_files") = {}
        /\ CliCalls("format_files") = {}
        /\ python_files = <<>>

\* C21 witness: the configuration file does not decode and main has exited.
C21_Witness ==
    /\ config_file = "TomlDecodeError"
    /\ cli_pc = "exited"
    /\ exit_code = 1

\* The command-line paths hold a Python file: a regular file whose name ends
\* with ".py", or a directory with such a file under it.
HasPythonFile ==
    \E i \in 1..Len(args_paths) :
        \/ args_paths[i].kind = "file" /\ args_paths[i].py
        \/ /\ args_paths[i].kind = "dir"
           /\ \E j \in 1..Len(args_paths[i].walk) : args_paths[i].walk[j].py

\* main has ended, past the reading of the configuration.
CliEndedConfigured ==
    cli_pc \in {"returned", "exited", "raised"} /\ config_file \in Configs

C22_WitnessNoFiles ==
    /\ cli_pc = "exited"
    /\ exit_code = 0
    /\ CliCalls("get_python_files") # {}

Finished(n) == \A i \in 1..Len(todo) : todo[i] # n

\* Node n of the tree given to visit is a function, an async function or a
\* class whose docstring, as ast.get_docstring gives it, is not empty.
Documented(n) ==
    /\ tree_in[n].kind \in {"FunctionDef", "AsyncFunctionDef", "ClassDef"}
    /\ tree_in[n].docstring # <<>>
    /\ Cleandoc(tree_in[n].docstring[1]) # <<>>

\* C24: once its visitor has finished, every function, async function and
\* class node with a non-empty docstring, nested or not, has as docstring
\* what format_docstring returns for that docstring; every other node, and
\* every node whose visitor has not finished, is as it was given: no
\* docstring is added and no first statement replaced. The shape of the tree
\* is kept.
C24_DocstringsReplaced ==
    /\ DOMAIN tree = DOMAIN tree_in
    /\ \A n \in DOMAIN tree :
          /\ tree[n].kind = tree_in[n].kind
          /\ tree[n].parent = tree_in[n].parent
          /\ IF Finished(n) /\ Documented(n)
             THEN tree[n].docstring =
                     <<ResultAlone(Cleandoc(tree_in[n].docstring[1]))>>
             ELSE tree[n].docstring = tree_in[n].docstring
    /\ \A i \in 1..Len(visited) : Documented(visited[i]) /\ Finished(visited[i])

\* C24 witness: the tree is done; the docstring of an async function nested
\* in another definition was replaced by a different one, and a definition
\* without docstring is in the tree.
C24_Witness ==
    /\ todo = <<>>
    /\ \E n \in DOMAIN tree :
          /\ tree[n].kind = "AsyncFunctionDef"
          /\ tree[n].parent # 1
          /\ tree[n].docstring # tree_in[n].docstring
          /\ tree[n].docstring = << <<"A", ":", "\n", "x">> >>
    /\ \E n \in DOMAIN tree :
          tree[n].kind = "ClassDef" /\ tree[n].docstring = <<>>

\* The markers of the running _format_code_example call, and the line its
\* loop is at.
StartMarker == Get(fconfig, "start_marker", DefaultStartMarker)

EndMarker == Get(fconfig, "end_marker", DefaultEndMarker)

AtLine == fpc = "loop" /\ fpos <= Len(fcontent)

\* C25: while OUTSIDE, a line whose stripped form differs from the start
\* marker (the end marker included) is emitted exactly as received, nothing
\* is added before or after it, the external formatter is not called and the
\* machine stays OUTSIDE.
C25_OutsidePassThrough ==
    [][(AtLine /\ ~in_code_block /\ Strip(fcontent[fpos]) # StartMarker) =>
          /\ formatted_content' = Append(formatted_content, fcontent[fpos])
          /\ in_code_block' = FALSE
          /\ code_block' = code_block
          /\ fpc' = "loop"]_vars

\* C26: the start-marker line and the end-marker line of a fenced block are
\* emitted as they are in the input, with their leading whitespace, once
\* each: the start marker when the block opens, the end marker after the
\* lines emitted for the body.
C26_MarkersAsInInput ==
    [][/\ (AtLine /\ ~in_code_block /\ Strip(fcontent[fpos]) = StartMarker) =>
             formatted_content' = Append(formatted_content, fcontent[fpos])
       /\ (AtLine /\ in_code_block /\ Strip(fcontent[fpos]) = EndMarker
                  /\ fpc' = "loop") =>
             /\ Len(formatted_content') > Len(formatted_content)
             /\ SubSeq(formatted_content', 1, Len(formatted_content)) =
                   formatted_content
             /\ formatted_content'[Len(formatted_content')] = fcontent[fpos]
             /\ \A i \in (Len(formatted_content) + 1)..(Len(formatted_content') - 1) :
                   Strip(formatted_content'[i]) # EndMarker]_vars

\* C27: while INSIDE, a line whose stripped form equals the end marker
\* closes the block, and every other line, a start-marker line included, is
\* appended as it is to the body buffer and emits nothing; the same when both
\* markers are one string.
C27_InsideBuffersOtherLines ==
    [][(AtLine /\ in_code_block) =>
          IF Strip(fcontent[fpos]) = EndMarker
          THEN in_code_block' = FALSE
          ELSE /\ code_block' = Append(code_block, fcontent[fpos])
               /\ formatted_content' = formatted_content
               /\ in_code_block' = TRUE
               /\ snippets' = snippets]_vars

\* C28: the external formatter is called once for each closed block, when
\* its end marker is met INSIDE, with the lines buffered for that block, and
\* never otherwise; after the end marker the body buffer is empty.
C28_OneCallPerClosedBlock ==
    [][/\ (AtLine /\ in_code_block /\ Strip(fcontent[fpos]) = EndMarker
                  /\ Strip(fcontent[fpos]) # StartMarker) =>
             /\ Len(snippets') = Len(snippets) + 1
             /\ snippets'[Len(snippets')].snippet = Join(<<NL>>, code_block)
             /\ fpc' = "loop" => code_block' = <<>>
       /\ (AtLine /\ ~(in_code_block /\ Strip(fcontent[fpos]) = EndMarker)) =>
             snippets' = snippets]_vars

\* The schema has a section with empty marker.
HasEmptyMarker == \E i \in 1..Len(sections) : sections[i].marker = <<>>

\* The first section with empty marker, as Optional.
EmptyMarkerSection ==
    IF HasEmptyMarker
    THEN <<sections[CHOOSE i \in 1..Len(sections) :
                      /\ sections[i].marker = <<>>
                      /\ \A j \in 1..(i - 1) : sections[j].marker # <<>>]>>
    ELSE <<>>

\* No line of content is blank.
NoBlankLine(content) == \A i \in 1..Len(content) : ~IsBlank(content[i])

\* The line of the loop starts with the marker of no section.
AtUnmarkedLine ==
    /\ pc = "loop"
    /\ idx <= Len(lines)
    /\ \A i \in 1..Len(sections) :
          sections[i].marker = <<>>
          \/ ~StartsWith(Strip(lines[idx]), sections[i].marker)

\* C29: with an empty-marker section in the schema, the buffer of a section
\* with non-empty marker never holds a blank line; a blank line met in such a
\* section makes the empty-marker section the current one and goes to no
\* buffer; a line that is neither blank nor a header is appended to the
\* buffer of the current section, so that the lines after the blank line, up
\* to the next header, are those of the empty-marker section; and a segment
\* of the empty-marker section is formatted as prose with that section's
\* width, with no call of the external formatter.
C29_BlankLineEndsMarkedSection ==
    /\ [](HasEmptyMarker =>
            /\ current_section # <<>> /\ current_section[1].marker # <<>> =>
                  NoBlankLine(current_content)
            /\ \A k \in 1..Len(segments) :
                  /\ segments[k].section # <<>>
                  /\ segments[k].section[1].marker # <<>> =>
                        NoBlankLine(segments[k].content)
                  /\ segments[k].section = EmptyMarkerSection =>
                        /\ segments[k].flines =
                              prose_lines(segments[k].content,
                                          Get(EmptyMarkerSection[1], "width",
                                              DefaultWidth))
                        /\ ~segments[k].raised)
    /\ [][(HasEmptyMarker /\ AtUnmarkedLine /\ pc' # "raised") =>
            IF IsBlank(lines[idx])
            THEN /\ current_section' = EmptyMarkerSection
                 /\ current_content' = IF current_section = EmptyMarkerSection
                                       THEN Append(current_content, lines[idx])
                                       ELSE <<>>
            ELSE /\ current_section' = current_section
                 /\ current_content' = Append(current_content, lines[idx])]_vars

\* C29 witness: a blank line ended the segment of a code-example section
\* inside its fence, and the lines after it were formatted as a segment of
\* the empty-marker section, with no call of the external formatter.
C29_Witness ==
    /\ pc = "done"
    /\ pass = 1
    /\ snippets = <<>>
    /\ \E k \in 1..(Len(segments) - 1) :
          /\ segments[k].section # <<>>
          /\ "code_example" \in DOMAIN segments[k].section[1]
          /\ segments[k].content # <<>>
          /\ segments[k + 1].section = EmptyMarkerSection
          /\ \E i \in 1..Len(segments[k + 1].content) :
                ~IsBlank(segments[k + 1].content[i])

\* Segment k is one of a code-example section.
IsCodeSegment(k) ==
    /\ segments[k].section # <<>>
    /\ "code_example" \in DOMAIN segments[k].section[1]

\* block is what a fence of content holds between its start marker at line i
\* and its end marker at line j.
IsBlockOf(block, content, i, j, code_config) ==
    /\ i < j
    /\ Strip(content[i]) = code_config.start_marker
    /\ Strip(content[j]) = code_config.end_marker
    /\ \A n \in (i + 1)..(j - 1) : Strip(content[n]) # code_config.end_marker
    /\ block = SelectSeq(SubSeq(content, i + 1, j - 1),
                         LAMBDA l : Strip(l) # code_config.start_marker)

\* The lines of content from its last start marker on hold no end marker.
EndsInFence(content, code_config) ==
    \E i \in 1..Len(content) :
        /\ Strip(content[i]) = code_config.start_marker
        /\ \A n \in (i + 1)..Len(content) :
              Strip(content[n]) # code_config.end_marker

\* The calls of the external formatter made by the step that is being taken.
NewCalls == SubSeq(snippets', Len(snippets) + 1, Len(snippets'))

\* C30: every call of _format_code_example starts OUTSIDE with an empty
\* buffer. When a segment is formatted, a block handed to the external
\* formatter from INSIDE lies between a start marker and an end marker of
\* that very segment, and an end marker with no start marker before it in
\* its own segment is met OUTSIDE with an empty buffer, whatever fence an
\* earlier segment left open. A segment of a code-example section holds no
\* line classified to another section: such a line ended the segment, also
\* inside a fence.
C30_FenceStatePerSegment ==
    /\ [][Len(segments') = Len(segments) + 1 =>
            \A c \in 1..Len(NewCalls) :
               IF NewCalls[c].inside
               THEN /\ segments'[Len(segments')].section # <<>>
                    /\ "code_example" \in
                          DOMAIN segments'[Len(segments')].section[1]
                    /\ \E i, j \in 1..Len(segments'[Len(segments')].content) :
                          IsBlockOf(NewCalls[c].block,
                                    segments'[Len(segments')].content, i, j,
                                    segments'[Len(segments')].section[1].code_example)
               ELSE NewCalls[c].block = <<>>]_vars
    /\ [](\A k \in 1..Len(segments) :
            IsCodeSegment(k) =>
               \A n \in 1..Len(segments[k].content) :
                  identify_section(sections, segments[k].content[n])
                     \in {<<>>, segments[k].section})

\* C30 witness: the first code-example segment ended inside a fence, the
\* second one holds an end marker and no start marker, and that end marker
\* was met OUTSIDE.
C30_Witness ==
    /\ pc = "done"
    /\ pass = 1
    /\ \E k1, k2 \in 1..Len(segments) :
          /\ k1 < k2
          /\ IsCodeSegment(k1)
          /\ IsCodeSegment(k2)
          /\ EndsInFence(segments[k1].content,
                         segments[k1].section[1].code_example)
          /\ \E n \in 1..Len(segments[k2].content) :
                Strip(segments[k2].content[n]) =
                   segments[k2].section[1].code_example.end_marker
          /\ \A n \in 1..Len(segments[k2].content) :
                Strip(segments[k2].content[n]) #
                   segments[k2].section[1].code_example.start_marker
    /\ snippets # <<>>
    /\ \A c \in 1..Len(snippets) : ~snippets[c].inside
\* The positions of path p among the first n paths of the list.
Occurrences(p, n) == {j \in 1..n : j <= Len(file_paths) /\ file_paths[j] = p}

RECURSIVE FullyFormatted(_)
\* What has been applied to a file that n calls of format_file went through:
\* docstrings, black and isort, in that order, n times.
FullyFormatted(n) ==
    IF n = 0 THEN <<>>
    ELSE FullyFormatted(n - 1) \o <<"docstrings", "black", "isort">>

====
